---- MODULE Spec2Model ----
(***************************************************************************)
(* Model of neurobik's download command (neurobik/cli.py) together with    *)
(* the Downloader it drives (neurobik/downloader.py), the selector         *)
(* (neurobik/tui.py), the configuration (neurobik/config.py) and the       *)
(* confirmation-file helper (neurobik/utils.py).                           *)
(*                                                                         *)
(* The filesystem is the only state shared between runs.  Paths are        *)
(* sequences of components; regular zero-byte files (confirmation files    *)
(* and the provider marker) are the set `files`, symlinks are the set      *)
(* `symlinks` of [path, target] entries, and what the hf tool has left in  *)
(* a destination directory is `artifacts`, keyed by the tool's arguments.  *)
(* Every configured artifact has its own confirmation path.                *)
(*                                                                         *)
(* Spec is the download command run again and again on one filesystem.     *)
(* UnitSpec is one direct call of verify_checksum, download_file or        *)
(* pull_oci, none of which download() reaches with free arguments.         *)
(***************************************************************************)
EXTENDS Integers, Sequences, FiniteSets, TLC

\* ---------------------------------------------------------------- bounds
MaxModels == 2
MaxImages == 1
\* longest file content and response body, in bytes
MaxBody == 3
\* bytes verify_checksum reads at a time; stands for the 4096 of utils.py:26,
\* scaled to contents of a few bytes (download_file writes twice as many at
\* a time, as 8192 is twice 4096)
ChunkSize == 2

\* ------------------------------------------------------ sequence helpers
Range(s) == {s[i] : i \in DOMAIN s}

IsInjective(s) == \A i, j \in DOMAIN s : s[i] = s[j] => i = j

\* all sequences without repetition over the set S, of length at most n
InjSeqs(S, n) == UNION {{s \in [1..k -> S] : IsInjective(s)} : k \in 0..n}

\* ------------------------------------------------------------------ paths
RECURSIVE CommonPrefixLen(_, _)
CommonPrefixLen(a, b) ==
  IF a = <<>> \/ b = <<>> \/ Head(a) # Head(b) THEN 0
  ELSE 1 + CommonPrefixLen(Tail(a), Tail(b))

Drop(s, n) == SubSeq(s, n + 1, Len(s))

DirName(path) == SubSeq(path, 1, Len(path) - 1)

Join(dir, name) == Append(dir, name)

\* os.path.relpath(path, start) on absolute, normalised paths
RelPath(path, start) ==
  LET i == CommonPrefixLen(start, path)
      rel == [n \in 1..(Len(start) - i) |-> ".."] \o Drop(path, i)
  IN IF rel = <<>> THEN <<".">> ELSE rel

\* where a symlink with the stored target `target`, living in directory
\* `dir`, leads: the components of target are walked from dir
RECURSIVE Walk(_, _)
Walk(dir, target) ==
  IF target = <<>> THEN dir
  ELSE IF Head(target) = "." THEN Walk(dir, Tail(target))
  ELSE IF Head(target) = ".."
       THEN Walk(IF dir = <<>> THEN dir ELSE DirName(dir), Tail(target))
  ELSE Walk(Append(dir, Head(target)), Tail(target))

Resolve(link) == Walk(DirName(link.path), link.target)

\* ---------------------------------------------------------- configuration
Names == {"a.gguf", "b.gguf"}

None == "None"

\* where a model's confirmation file and its destination live: beside each
\* other in sibling directories, or the destination one level below
Placements ==
  << [conf |-> <<"r", "c">>, loc |-> <<"r", "m">>],
     [conf |-> <<"r">>, loc |-> <<"r", "models">>] >>

\* entries alternate between the two layouts
Placement(i) == Placements[2 - (i % 2)]

ModelItem(i, name) ==
  [ repo_name |-> "repo" \o ToString(i),
    model_name |-> name,
    location |-> Join(Placement(i).loc, "m" \o ToString(i) \o ".gguf"),
    confirmation_file |-> Join(Placement(i).conf, ".m" \o ToString(i) \o "_ready"),
    checksum |-> None ]

OciItem(j) ==
  [ image |-> "img" \o ToString(j),
    confirmation_file |-> <<"r", "oci", ".img" \o ToString(j) \o "_ready">> ]

ModelNames(ms) == {ms[i].model_name : i \in DOMAIN ms}

\* config.py:91, the providers validate_config knows
KnownModelProviders == {"ollama", "llama.cpp", "ramalama"}

\* faulty variant: the check of default_gguf is missing
ConfigError_NoDefaultCheck(c) ==
  IF c.model_provider # None /\ c.models # <<>>
     /\ c.model_provider \notin KnownModelProviders
  THEN << <<"Unsupported model_provider">>, <<c.model_provider>> >>
  ELSE IF c.oci # <<>> /\ c.oci_provider # "podman"
  THEN << <<"Only podman supported for OCI">> >>
  ELSE <<>>

\* Config.validate_config: the message of the ValueError it raises, <<>> when
\* it raises none.  Each check is skipped when its section is empty.
ConfigError(c) ==
  IF c.model_provider # None /\ c.models # <<>>
     /\ c.model_provider \notin KnownModelProviders
  THEN << <<"Unsupported model_provider">>, <<c.model_provider>> >>
  ELSE IF c.oci # <<>> /\ c.oci_provider # "podman"
  THEN << <<"Only podman supported for OCI">> >>
  ELSE IF c.default_gguf # None /\ c.models # <<>>
          /\ c.default_gguf \notin ModelNames(c.models)
  THEN << <<"default_gguf not found in configured models">>, <<c.default_gguf>> >>
  ELSE <<>>

\* Config.validate_config returns without raising
ValidateConfig(c) == ConfigError(c) = <<>>

\* what the configuration file may say about providers and the default;
\* leaving model_provider out is tried with at most one model
ModelProviders(n) == IF n <= 1 THEN {None, "ollama", "bogus"} ELSE {"ollama", "bogus"}

OciProviders == {"podman", "docker"}

DefaultNames(nm) == {None, "c.gguf"} \cup Range(nm)

\* the configurations: up to MaxModels models, the first named a.gguf and
\* every other one named freely (names may repeat), up to MaxImages images;
\* valid ones and ones validate_config rejects
Configs ==
  UNION { UNION { { [ model_provider |-> mp,
                       oci_provider |-> op,
                       default_gguf |-> d,
                       models |-> [i \in 1..n |-> ModelItem(i, nm[i])],
                       oci |-> [j \in 1..o |-> OciItem(j)] ]
                     : d \in DefaultNames(nm), mp \in ModelProviders(n), op \in OciProviders }
                   : nm \in {f \in [1..n -> Names] : n > 0 => f[1] = "a.gguf"} }
          : n \in 0..MaxModels, o \in 0..MaxImages }

\* faulty variant: models[-1] instead of models[0]
ProviderConfirmationFile_LastModel(c) ==
  IF c.models = <<>> THEN None
  ELSE Join(DirName(c.models[Len(c.models)].confirmation_file), ".neurobik-ready")

\* Config.provider_confirmation_file
ProviderConfirmationFile(c) ==
  IF c.models = <<>> THEN None
  ELSE Join(DirName(c.models[1].confirmation_file), ".neurobik-ready")

\* ------------------------------------------------------------------ state
Procs == {1, 2}

VARIABLES
  cfg,               \* the configuration file, the same in every run
  podman,            \* shutil.which("podman") finds the tool
  files,             \* paths of the regular files created by touch
  symlinks,          \* the symlinks: a set of [path, target]
  artifacts,         \* what hf download left behind, per argument vector
  pc,                \* per process: position in download()
  items,             \* per process: the offer list
  offered,           \* per process: indices of the models put on the offer list
  selected,          \* per process: what NeurobikTUI.run returned
  pos,               \* per process: index of the next selected item
  downloaded_models, \* per process: the newly fetched models
  k,                 \* per process: index into downloaded_models when confirming
  exit_code,         \* per process: <<>> while running, then <<code>>
  output,            \* per process: last message printed
  trace,             \* per process: external calls made in this run
  call,              \* a method called directly: its name and arguments
  upc,               \* position inside the method called directly
  disk,              \* the file the direct call reads or writes: is it there, its bytes
  dirs,              \* the directories there are for the direct call
  effects,           \* external effects of the direct call, in order
  result             \* how the direct call ended and with what

fsvars == <<files, symlinks, artifacts>>

\* the state of a direct call of verify_checksum, download_file or pull_oci
unitvars == <<call, upc, disk, dirs, effects, result>>

\* what download() never changes
envvars == <<cfg, podman, unitvars>>

vars == <<cfg, podman, files, symlinks, artifacts, pc, items, offered,
          selected, pos, downloaded_models, k, exit_code, output, trace,
          call, upc, disk, dirs, effects, result>>

\* the argument vector pull_model hands to subprocess.run
HfArgs(model) ==
  [ repo |-> model.repo_name, file |-> model.model_name,
    local_dir |-> DirName(model.location) ]

\* os.path.exists on a confirmation path
Exists(path, fs) == path \in fs

\* os.path.lexists: true of a regular file and of a symlink, dangling or not
LExists(path, fs, links) == path \in fs \/ \E l \in links : l.path = path

\* os.unlink
Unlink(path, links) == {l \in links : l.path # path}

\* faulty variant: every confirmation file gets a provider marker beside it
CreateConfirmationFile_WithMarker(path, fs) ==
  fs \cup {path, Join(DirName(path), ".neurobik-ready")}

\* create_confirmation_file: makedirs(exist_ok) then touch
CreateConfirmationFile(path, fs) == fs \cup {path}

\* a message is a prefix and a sequence of parts, each a sequence of strings
NoOutput == [prefix |-> "", msg |-> <<>>]

\* faulty variant: default_gguf is ignored
DefaultModel_First(c) == c.models[1]

\* faulty variant: without default_gguf the first model fetched in this run is taken
DefaultModel_FirstDownloaded(c) ==
  IF \E i \in DOMAIN c.models : c.models[i].model_name = c.default_gguf
  THEN c.models[CHOOSE i \in DOMAIN c.models :
                  /\ c.models[i].model_name = c.default_gguf
                  /\ \A j \in 1..(i - 1) : c.models[j].model_name # c.default_gguf]
  ELSE IF downloaded_models[1] # <<>> THEN downloaded_models[1][1] ELSE c.models[1]

\* cli.py:97-100: the model named by default_gguf, else the first configured
DefaultModel(c) ==
  IF \E i \in DOMAIN c.models : c.models[i].model_name = c.default_gguf
  THEN c.models[CHOOSE i \in DOMAIN c.models :
                  /\ c.models[i].model_name = c.default_gguf
                  /\ \A j \in 1..(i - 1) : c.models[j].model_name # c.default_gguf]
  ELSE c.models[1]

\* cli.py:101
ModelsDir(c) == DirName(DefaultModel(c).confirmation_file)

\* downloader.py:102
SymlinkPath(models_dir) == Join(models_dir, "default-model.gguf")

\* an optional argument: None, or a value
Nothing == [some |-> FALSE, val |-> <<>>]

Some(v) == [some |-> TRUE, val |-> v]

\* Python's truth value of an optional string or list
Truthy(o) == o.some /\ o.val # <<>>

NoFile == [exists |-> FALSE, content |-> <<>>]

NotCalled == [state |-> "none", value |-> ""]

\* no method is called directly
UnitIdle ==
  /\ call = [fn |-> "none"]
  /\ upc = "none"
  /\ disk = NoFile
  /\ dirs = {}
  /\ effects = <<>>
  /\ result = NotCalled

\* nothing has run yet: no confirmation file, no link, no artifact
FreshStart ==
  /\ podman \in BOOLEAN
  /\ UnitIdle
  /\ files = {}
  /\ artifacts = [a \in {HfArgs(cfg.models[i]) : i \in DOMAIN cfg.models} |-> "absent"]
  /\ pc = [p \in Procs |-> "idle"]
  /\ items = [p \in Procs |-> <<>>]
  /\ offered = [p \in Procs |-> {}]
  /\ selected = [p \in Procs |-> <<>>]
  /\ pos = [p \in Procs |-> 1]
  /\ downloaded_models = [p \in Procs |-> <<>>]
  /\ k = [p \in Procs |-> 1]
  /\ exit_code = [p \in Procs |-> <<>>]
  /\ output = [p \in Procs |-> NoOutput]
  /\ trace = [p \in Procs |-> <<>>]
  /\ symlinks = {}

Init ==
  /\ cfg \in Configs
  /\ FreshStart

\* ------------------------------------------------------------ cli.download
\* exceptions the handler of download catches (cli.py:151)
Caught == {"ValueError", "OSError", "RuntimeError"}

\* faulty variant: the handler reports the error and forgets sys.exit(1)
Raise_NoExit(p, kind, msg) ==
  /\ pc' = [pc EXCEPT ![p] = "aborted"]
  /\ exit_code' = [exit_code EXCEPT ![p] = IF kind \in Caught THEN <<0>> ELSE <<1>>]
  /\ output' = [output EXCEPT ![p] =
       IF kind \in Caught THEN [prefix |-> "Error: ", msg |-> msg]
       ELSE IF kind = "KeyboardInterrupt" THEN [prefix |-> "Aborted!", msg |-> <<>>]
       ELSE [prefix |-> "Traceback", msg |-> << <<kind>> >>]]

\* what leaving download() through an exception does to the process
Raise(p, kind, msg) ==
  /\ pc' = [pc EXCEPT ![p] = "aborted"]
  /\ exit_code' = [exit_code EXCEPT ![p] = <<1>>]
  /\ output' = [output EXCEPT ![p] =
       IF kind \in Caught THEN [prefix |-> "Error: ", msg |-> msg]
       ELSE IF kind = "KeyboardInterrupt" THEN [prefix |-> "Aborted!", msg |-> <<>>]
       ELSE [prefix |-> "Traceback", msg |-> << <<kind>> >>]]

\* faulty variant: a model is offered when its destination is missing
OfferedModels_ByDestination(c, fs) ==
  {i \in DOMAIN c.models : artifacts[HfArgs(c.models[i])] = "absent"}

\* faulty variant: the filter on the confirmation file is missing
OfferedModels_All(c, fs) == DOMAIN c.models

\* cli.py:62-68, the model loop: indices of the models that are offered
OfferedModels(c, fs) ==
  {i \in DOMAIN c.models : ~Exists(c.models[i].confirmation_file, fs)}

\* faulty variant: every configured model is listed, confirmed or not
RECURSIVE ModelItems_Unfiltered(_, _, _)
ModelItems_Unfiltered(c, fs, i) ==
  IF i > Len(c.models) THEN <<>>
  ELSE <<[name |-> c.models[i].model_name, type |-> "model"]>>
       \o ModelItems_Unfiltered(c, fs, i + 1)

RECURSIVE ModelItems(_, _, _)
ModelItems(c, fs, i) ==
  IF i > Len(c.models) THEN <<>>
  ELSE (IF i \in OfferedModels(c, fs)
        THEN <<[name |-> c.models[i].model_name, type |-> "model"]>>
        ELSE <<>>) \o ModelItems(c, fs, i + 1)

\* faulty variant: images are filtered by their confirmation file as models are
BuildItems_UnconfirmedImages(c, fs) ==
  ModelItems(c, fs, 1)
  \o SelectSeq([j \in 1..Len(c.oci) |-> [name |-> c.oci[j].image, type |-> "oci"]],
               LAMBDA it : \E j \in DOMAIN c.oci :
                 c.oci[j].image = it.name /\ ~Exists(c.oci[j].confirmation_file, fs))

BuildItems(c, fs) ==
  ModelItems(c, fs, 1) \o [j \in 1..Len(c.oci) |-> [name |-> c.oci[j].image, type |-> "oci"]]

ResetLocals(p) ==
  /\ selected' = [selected EXCEPT ![p] = <<>>]
  /\ pos' = [pos EXCEPT ![p] = 1]
  /\ downloaded_models' = [downloaded_models EXCEPT ![p] = <<>>]
  /\ k' = [k EXCEPT ![p] = 1]
  /\ trace' = [trace EXCEPT ![p] = <<>>]

\* faulty variant: the command waits until no other instance is running
CanStart_Exclusive(p) == \A q \in Procs : pc[q] \in {"idle", "done", "aborted"}

\* the previous run of p, if any, is over: the command is invoked again
CanStart(p) == pc[p] \in {"idle", "done", "aborted"}

\* cli.py:59 with config.py:74, validate_config raises ValueError
StartRunInvalidConfig(p) ==
  /\ CanStart(p)
  /\ ~ValidateConfig(cfg)
  /\ ResetLocals(p)
  /\ items' = [items EXCEPT ![p] = <<>>]
  /\ offered' = [offered EXCEPT ![p] = {}]
  /\ Raise(p, "ValueError", ConfigError(cfg))
  /\ UNCHANGED <<envvars, fsvars>>

\* cli.py:60, check_podman raises RuntimeError
StartRunNoPodman(p) ==
  /\ CanStart(p)
  /\ ValidateConfig(cfg)
  /\ ~podman
  /\ ResetLocals(p)
  /\ items' = [items EXCEPT ![p] = <<>>]
  /\ offered' = [offered EXCEPT ![p] = {}]
  /\ Raise(p, "RuntimeError", << <<"Podman not installed">> >>)
  /\ UNCHANGED <<envvars, fsvars>>

\* faulty variant: the selector is started on an empty offer list
StartRunNoItems_StartsSelector(p) ==
  /\ CanStart(p)
  /\ ValidateConfig(cfg)
  /\ podman
  /\ BuildItems(cfg, files) = <<>>
  /\ ResetLocals(p)
  /\ items' = [items EXCEPT ![p] = <<>>]
  /\ offered' = [offered EXCEPT ![p] = {}]
  /\ pc' = [pc EXCEPT ![p] = "select"]
  /\ exit_code' = [exit_code EXCEPT ![p] = <<>>]
  /\ output' = [output EXCEPT ![p] = NoOutput]
  /\ UNCHANGED <<envvars, fsvars>>

\* cli.py:62-72, nothing to offer
StartRunNoItems(p) ==
  /\ CanStart(p)
  /\ ValidateConfig(cfg)
  /\ podman
  /\ BuildItems(cfg, files) = <<>>
  /\ ResetLocals(p)
  /\ items' = [items EXCEPT ![p] = <<>>]
  /\ offered' = [offered EXCEPT ![p] = {}]
  /\ pc' = [pc EXCEPT ![p] = "done"]
  /\ exit_code' = [exit_code EXCEPT ![p] = <<0>>]
  /\ output' = [output EXCEPT ![p] = [prefix |-> "", msg |-> << <<"No items to download.">> >>]]
  /\ UNCHANGED <<envvars, fsvars>>

\* faulty variant: podman is looked for only when an image is configured
StartRun_PodmanForImages(p) ==
  /\ CanStart(p)
  /\ ValidateConfig(cfg)
  /\ podman \/ cfg.oci = <<>>
  /\ BuildItems(cfg, files) # <<>>
  /\ ResetLocals(p)
  /\ items' = [items EXCEPT ![p] = BuildItems(cfg, files)]
  /\ offered' = [offered EXCEPT ![p] = OfferedModels(cfg, files)]
  /\ pc' = [pc EXCEPT ![p] = "select"]
  /\ exit_code' = [exit_code EXCEPT ![p] = <<>>]
  /\ output' = [output EXCEPT ![p] = NoOutput]
  /\ UNCHANGED <<envvars, fsvars>>

\* faulty variant: from_yaml returns the configuration without validate_config
StartRun_Unvalidated(p) ==
  /\ CanStart(p)
  /\ podman
  /\ BuildItems(cfg, files) # <<>>
  /\ ResetLocals(p)
  /\ items' = [items EXCEPT ![p] = BuildItems(cfg, files)]
  /\ offered' = [offered EXCEPT ![p] = OfferedModels(cfg, files)]
  /\ pc' = [pc EXCEPT ![p] = "select"]
  /\ exit_code' = [exit_code EXCEPT ![p] = <<>>]
  /\ output' = [output EXCEPT ![p] = NoOutput]
  /\ UNCHANGED <<envvars, fsvars>>

\* cli.py:62-75, the offer list goes to the selector
StartRun(p) ==
  /\ CanStart(p)
  /\ ValidateConfig(cfg)
  /\ podman
  /\ BuildItems(cfg, files) # <<>>
  /\ ResetLocals(p)
  /\ items' = [items EXCEPT ![p] = BuildItems(cfg, files)]
  /\ offered' = [offered EXCEPT ![p] = OfferedModels(cfg, files)]
  /\ pc' = [pc EXCEPT ![p] = "select"]
  /\ exit_code' = [exit_code EXCEPT ![p] = <<>>]
  /\ output' = [output EXCEPT ![p] = NoOutput]
  /\ UNCHANGED <<envvars, fsvars>>

\* ------------------------------------------------------------ tui.run
Choice(item) == <<item.type, item.name>>

\* list.index: the first position holding the value
ChoicesIndex(choices, choice) ==
  CHOOSE i \in DOMAIN choices :
    choices[i] = choice /\ \A j \in 1..(i - 1) : choices[j] # choice

\* tui.py:33-38: picks are the positions the user checked, in the order
\* questionary returns them
TuiRun(its, picks) ==
  LET choices == [i \in DOMAIN its |-> Choice(its[i])]
  IN [n \in DOMAIN picks |-> its[ChoicesIndex(choices, choices[picks[n]])]]

\* cli.py:26 and cli.py:45: the first configured entry with the item's name
LookupModel(c, item) ==
  c.models[CHOOSE i \in DOMAIN c.models :
             /\ c.models[i].model_name = item.name
             /\ \A j \in 1..(i - 1) : c.models[j].model_name # item.name]

LookupOci(c, item) ==
  c.oci[CHOOSE j \in DOMAIN c.oci :
          /\ c.oci[j].image = item.name
          /\ \A h \in 1..(j - 1) : c.oci[h].image # item.name]

\* faulty variant: the link step sits inside the loop, after the first model fetched
AfterItem_LinksEarly(sel, nextpos, dm) ==
  IF dm # <<>> THEN "link"
  ELSE IF nextpos <= Len(sel) THEN "fetch"
  ELSE "done"

\* faulty variant: with nothing fetched the selector is shown again
AfterItem_BackToSelector(sel, nextpos, dm) ==
  IF nextpos <= Len(sel) THEN "fetch"
  ELSE IF dm # <<>> THEN "link"
  ELSE "select"

\* faulty variant: the link step does not ask whether a model was fetched
AfterItem_LinksAnyway(sel, nextpos, dm) ==
  IF nextpos <= Len(sel) THEN "fetch" ELSE "link"

\* where download() continues once selected[pos] has been processed:
\* cli.py:89 (next item), cli.py:96 (link) or cli.py:113 (nothing fetched)
AfterItem(sel, nextpos, dm) ==
  IF nextpos <= Len(sel) THEN "fetch"
  ELSE IF dm # <<>> THEN "link"
  ELSE "done"

\* cli.py:113-149, the closing banner
Banner == [prefix |-> "", msg |-> << <<"All Downloads Complete">> >>]

Finish(p, nextpc) ==
  /\ pc' = [pc EXCEPT ![p] = nextpc]
  /\ exit_code' = [exit_code EXCEPT ![p] = IF nextpc = "done" THEN <<0>> ELSE <<>>]
  /\ output' = [output EXCEPT ![p] = IF nextpc = "done" THEN Banner ELSE @]

\* cli.py:75-76
Select(p) ==
  /\ pc[p] = "select"
  /\ \E picks \in InjSeqs(DOMAIN items[p], Len(items[p])) :
       /\ selected' = [selected EXCEPT ![p] = TuiRun(items[p], picks)]
       /\ Finish(p, AfterItem(TuiRun(items[p], picks), 1, <<>>))
  /\ UNCHANGED <<envvars, fsvars, items, offered, pos, downloaded_models, k, trace>>

\* faulty variant: the selection is processed from its end
CurrentItem_Reversed(p) == selected[p][Len(selected[p]) - pos[p] + 1]

\* cli.py:89, the item the loop is at
CurrentItem(p) == selected[p][pos[p]]

HfCall(model, ok) ==
  [op |-> "hf", arg |-> <<model.repo_name, model.model_name>> \o DirName(model.location), ok |-> ok]

\* faulty variant: pull_model writes the confirmation file itself, as pull_oci does
PullModelOk_ConfirmsAtOnce(p) ==
  /\ pc[p] = "fetch"
  /\ CurrentItem(p).type = "model"
  /\ LET model == LookupModel(cfg, CurrentItem(p))
         dm == Append(downloaded_models[p], model)
     IN /\ artifacts' = [artifacts EXCEPT ![HfArgs(model)] = "complete"]
        /\ files' = CreateConfirmationFile(model.confirmation_file, files)
        /\ trace' = [trace EXCEPT ![p] = Append(@, HfCall(model, TRUE))]
        /\ downloaded_models' = [downloaded_models EXCEPT ![p] = dm]
        /\ pos' = [pos EXCEPT ![p] = @ + 1]
        /\ Finish(p, AfterItem(selected[p], pos[p] + 1, dm))
  /\ UNCHANGED <<envvars, symlinks, items, offered, selected, k>>

\* faulty variant: a model with a configured checksum is verified after the
\* download, and the artifact does not have that checksum
PullModelOk_Verified(p) ==
  /\ pc[p] = "fetch"
  /\ CurrentItem(p).type = "model"
  /\ LET model == LookupModel(cfg, CurrentItem(p))
         dm == Append(downloaded_models[p], model)
     IN /\ artifacts' = [artifacts EXCEPT ![HfArgs(model)] = "complete"]
        /\ trace' = [trace EXCEPT ![p] = Append(@, HfCall(model, TRUE))]
        /\ IF model.checksum = None
           THEN /\ downloaded_models' = [downloaded_models EXCEPT ![p] = dm]
                /\ pos' = [pos EXCEPT ![p] = @ + 1]
                /\ Finish(p, AfterItem(selected[p], pos[p] + 1, dm))
           ELSE /\ Raise(p, "ValueError", << <<"Checksum mismatch for">>, model.location >>)
                /\ UNCHANGED <<downloaded_models, pos>>
  /\ UNCHANGED <<envvars, files, symlinks, items, offered, selected, k>>

\* cli.py:17-34 with downloader.py:49-63, the tool exits with status 0
PullModelOk(p) ==
  /\ pc[p] = "fetch"
  /\ CurrentItem(p).type = "model"
  /\ LET model == LookupModel(cfg, CurrentItem(p))
         dm == Append(downloaded_models[p], model)
     IN /\ artifacts' = [artifacts EXCEPT ![HfArgs(model)] = "complete"]
        /\ trace' = [trace EXCEPT ![p] = Append(@, HfCall(model, TRUE))]
        /\ downloaded_models' = [downloaded_models EXCEPT ![p] = dm]
        /\ pos' = [pos EXCEPT ![p] = @ + 1]
        /\ Finish(p, AfterItem(selected[p], pos[p] + 1, dm))
  /\ UNCHANGED <<envvars, files, symlinks, items, offered, selected, k>>

\* what a transfer that was started and did not finish leaves in the
\* destination directory: something incomplete, unless the file was there
AfterFailedFetch(old) == IF old = "absent" THEN "partial" ELSE old

\* faulty variant: subprocess.run without check=True, a failed download goes unnoticed
PullModelFail_Unchecked(p) ==
  /\ pc[p] = "fetch"
  /\ CurrentItem(p).type = "model"
  /\ LET model == LookupModel(cfg, CurrentItem(p))
         dm == Append(downloaded_models[p], model)
     IN /\ artifacts' = [artifacts EXCEPT ![HfArgs(model)] = AfterFailedFetch(@)]
        /\ trace' = [trace EXCEPT ![p] = Append(@, HfCall(model, FALSE))]
        /\ downloaded_models' = [downloaded_models EXCEPT ![p] = dm]
        /\ pos' = [pos EXCEPT ![p] = @ + 1]
        /\ Finish(p, AfterItem(selected[p], pos[p] + 1, dm))
  /\ UNCHANGED <<envvars, files, symlinks, items, offered, selected, k>>

\* downloader.py:59-63: makedirs or the tool cannot be started (OSError), the
\* tool exits nonzero (CalledProcessError), or the user interrupts it
PullModelFail(p) ==
  /\ pc[p] = "fetch"
  /\ CurrentItem(p).type = "model"
  /\ LET model == LookupModel(cfg, CurrentItem(p))
     IN \E kind \in {"OSError", "CalledProcessError", "KeyboardInterrupt"} :
          /\ artifacts' = [artifacts EXCEPT ![HfArgs(model)] =
               IF kind = "OSError" THEN @ ELSE AfterFailedFetch(@)]
          /\ trace' = [trace EXCEPT ![p] = Append(@, HfCall(model, FALSE))]
          /\ Raise(p, kind, << <<kind>>, <<"hf", "download">> >>)
  /\ UNCHANGED <<envvars, files, symlinks, items, offered, selected, pos,
                 downloaded_models, k>>

PodmanCall(oci, ok) == [op |-> "podman", arg |-> <<oci.image>>, ok |-> ok]

\* faulty variant: the image's confirmation file is left for later, as a model's is
PullOciOk_Deferred(p) ==
  /\ pc[p] = "fetch"
  /\ CurrentItem(p).type = "oci"
  /\ LET oci == LookupOci(cfg, CurrentItem(p))
     IN /\ trace' = [trace EXCEPT ![p] = Append(@, PodmanCall(oci, TRUE))]
        /\ pos' = [pos EXCEPT ![p] = @ + 1]
        /\ Finish(p, AfterItem(selected[p], pos[p] + 1, downloaded_models[p]))
  /\ UNCHANGED <<envvars, files, symlinks, artifacts, items, offered, selected,
                 downloaded_models, k>>

\* cli.py:37-46 with downloader.py:66-85, pull or build succeeds and the
\* confirmation file is written at once
PullOciOk(p) ==
  /\ pc[p] = "fetch"
  /\ CurrentItem(p).type = "oci"
  /\ LET oci == LookupOci(cfg, CurrentItem(p))
     IN /\ files' = CreateConfirmationFile(oci.confirmation_file, files)
        /\ trace' = [trace EXCEPT ![p] = Append(@, PodmanCall(oci, TRUE))]
        /\ pos' = [pos EXCEPT ![p] = @ + 1]
        /\ Finish(p, AfterItem(selected[p], pos[p] + 1, downloaded_models[p]))
  /\ UNCHANGED <<envvars, symlinks, artifacts, items, offered, selected,
                 downloaded_models, k>>

\* faulty variant: subprocess.run without check=True, a failed pull counts as done
PullOciFail_Unchecked(p) ==
  /\ pc[p] = "fetch"
  /\ CurrentItem(p).type = "oci"
  /\ LET oci == LookupOci(cfg, CurrentItem(p))
     IN /\ files' = CreateConfirmationFile(oci.confirmation_file, files)
        /\ trace' = [trace EXCEPT ![p] = Append(@, PodmanCall(oci, FALSE))]
        /\ pos' = [pos EXCEPT ![p] = @ + 1]
        /\ Finish(p, AfterItem(selected[p], pos[p] + 1, downloaded_models[p]))
  /\ UNCHANGED <<envvars, symlinks, artifacts, items, offered,
                 selected, downloaded_models, k>>

\* downloader.py:74-84: makedirs or podman cannot be started (OSError),
\* podman exits nonzero (CalledProcessError), or the user interrupts it
PullOciFail(p) ==
  /\ pc[p] = "fetch"
  /\ CurrentItem(p).type = "oci"
  /\ LET oci == LookupOci(cfg, CurrentItem(p))
     IN \E kind \in {"OSError", "CalledProcessError", "KeyboardInterrupt"} :
          /\ trace' = [trace EXCEPT ![p] = Append(@, PodmanCall(oci, FALSE))]
          /\ Raise(p, kind, << <<kind>>, <<"podman">> >>)
  /\ UNCHANGED <<envvars, fsvars, items, offered, selected, pos, downloaded_models, k>>

\* downloader.py:85: the image is there but its confirmation file cannot
\* be written
PullOciConfirmFail(p) ==
  /\ pc[p] = "fetch"
  /\ CurrentItem(p).type = "oci"
  /\ LET oci == LookupOci(cfg, CurrentItem(p))
     IN /\ trace' = [trace EXCEPT ![p] = Append(@, PodmanCall(oci, TRUE))]
        /\ Raise(p, "OSError", << <<"OSError">>, oci.confirmation_file >>)
  /\ UNCHANGED <<envvars, files, symlinks, artifacts, items, offered, selected, pos,
                 downloaded_models, k>>

\* ------------------------------------------- Downloader.create_default_symlink
\* faulty variant: the destination itself is stored as the target
LinkTarget_Absolute(c) == DefaultModel(c).location

\* downloader.py:103
LinkTarget(c) == RelPath(DefaultModel(c).location, ModelsDir(c))

FsCall(op, path, ok) == [op |-> op, arg |-> path, ok |-> ok]

\* cli.py:96-102 and downloader.py:102-106: is there an entry at the link path
LinkLExists(p) ==
  /\ pc[p] = "link"
  /\ pc' = [pc EXCEPT ![p] =
       IF LExists(SymlinkPath(ModelsDir(cfg)), files, symlinks) THEN "unlink" ELSE "symlink"]
  /\ trace' = [trace EXCEPT ![p] = Append(@, FsCall("lexists", SymlinkPath(ModelsDir(cfg)), TRUE))]
  /\ UNCHANGED <<envvars, fsvars, items, offered, selected, pos, downloaded_models, k,
                 exit_code, output>>

\* faulty variant: the directory is cleared before the link is made
UnlinkOk_ClearsFiles(p) ==
  /\ pc[p] = "unlink"
  /\ LExists(SymlinkPath(ModelsDir(cfg)), files, symlinks)
  /\ symlinks' = Unlink(SymlinkPath(ModelsDir(cfg)), symlinks)
  /\ files' = {}
  /\ pc' = [pc EXCEPT ![p] = "symlink"]
  /\ trace' = [trace EXCEPT ![p] = Append(@, FsCall("unlink", SymlinkPath(ModelsDir(cfg)), TRUE))]
  /\ UNCHANGED <<envvars, artifacts, items, offered, selected, pos,
                 downloaded_models, k, exit_code, output>>

\* downloader.py:108, os.unlink removes the entry
UnlinkOk(p) ==
  /\ pc[p] = "unlink"
  /\ LExists(SymlinkPath(ModelsDir(cfg)), files, symlinks)
  /\ symlinks' = Unlink(SymlinkPath(ModelsDir(cfg)), symlinks)
  /\ files' = files \ {SymlinkPath(ModelsDir(cfg))}
  /\ pc' = [pc EXCEPT ![p] = "symlink"]
  /\ trace' = [trace EXCEPT ![p] = Append(@, FsCall("unlink", SymlinkPath(ModelsDir(cfg)), TRUE))]
  /\ UNCHANGED <<envvars, artifacts, items, offered, selected, pos,
                 downloaded_models, k, exit_code, output>>

\* faulty variant: the OSError of os.unlink is swallowed and creation is attempted
UnlinkFail_Continues(p) ==
  /\ pc[p] = "unlink"
  /\ trace' = [trace EXCEPT ![p] = Append(@, FsCall("unlink", SymlinkPath(ModelsDir(cfg)), FALSE))]
  /\ pc' = [pc EXCEPT ![p] = "symlink"]
  /\ UNCHANGED <<envvars, fsvars, items, offered, selected, pos,
                 downloaded_models, k, exit_code, output>>

\* downloader.py:109-110, os.unlink raises OSError
UnlinkFail(p) ==
  /\ pc[p] = "unlink"
  /\ trace' = [trace EXCEPT ![p] = Append(@, FsCall("unlink", SymlinkPath(ModelsDir(cfg)), FALSE))]
  /\ Raise(p, "RuntimeError",
           << <<"Failed to remove existing symlink">>, SymlinkPath(ModelsDir(cfg)), <<"OSError">> >>)
  /\ UNCHANGED <<envvars, fsvars, items, offered, selected, pos, downloaded_models, k>>

\* downloader.py:113-114 and cli.py:103, os.symlink creates the link
SymlinkOk(p) ==
  /\ pc[p] = "symlink"
  /\ ~LExists(SymlinkPath(ModelsDir(cfg)), files, symlinks)
  /\ symlinks' = symlinks \cup {[path |-> SymlinkPath(ModelsDir(cfg)), target |-> LinkTarget(cfg)]}
  /\ pc' = [pc EXCEPT ![p] = "confirm"]
  /\ k' = [k EXCEPT ![p] = 1]
  /\ output' = [output EXCEPT ![p] =
       [prefix |-> "Default model: ", msg |-> <<DefaultModel(cfg).location>>]]
  /\ trace' = [trace EXCEPT ![p] = Append(@, FsCall("symlink", SymlinkPath(ModelsDir(cfg)), TRUE))]
  /\ UNCHANGED <<envvars, files, artifacts, items, offered, selected, pos,
                 downloaded_models, exit_code>>

\* faulty variant: a failed os.symlink is attempted again
SymlinkFail_Retries(p) ==
  /\ pc[p] = "symlink"
  /\ trace' = [trace EXCEPT ![p] = Append(@, FsCall("symlink", SymlinkPath(ModelsDir(cfg)), FALSE))]
  /\ UNCHANGED <<envvars, fsvars, pc, exit_code, output, items, offered, selected, pos,
                 downloaded_models, k>>

\* downloader.py:115-116, os.symlink raises OSError
SymlinkFail(p) ==
  /\ pc[p] = "symlink"
  /\ trace' = [trace EXCEPT ![p] = Append(@, FsCall("symlink", SymlinkPath(ModelsDir(cfg)), FALSE))]
  /\ Raise(p, "RuntimeError",
           << <<"Failed to create symlink">>, SymlinkPath(ModelsDir(cfg)), <<"->">>,
              LinkTarget(cfg), <<"OSError">> >>)
  /\ UNCHANGED <<envvars, fsvars, items, offered, selected, pos, downloaded_models, k>>

\* ------------------------------------------------------ cli.download, end
\* cli.py:106-107, one iteration of the confirmation loop
ConfirmModel(p) ==
  /\ pc[p] = "confirm"
  /\ k[p] <= Len(downloaded_models[p])
  /\ files' = CreateConfirmationFile(downloaded_models[p][k[p]].confirmation_file, files)
  /\ trace' = [trace EXCEPT ![p] =
       Append(@, FsCall("touch", downloaded_models[p][k[p]].confirmation_file, TRUE))]
  /\ k' = [k EXCEPT ![p] = @ + 1]
  /\ pc' = [pc EXCEPT ![p] = IF k[p] + 1 <= Len(downloaded_models[p]) THEN "confirm" ELSE "marker"]
  /\ UNCHANGED <<envvars, symlinks, artifacts, items, offered, selected, pos,
                 downloaded_models, exit_code, output>>

\* utils.py:37-38 raises OSError
ConfirmModelFail(p) ==
  /\ pc[p] = "confirm"
  /\ k[p] <= Len(downloaded_models[p])
  /\ trace' = [trace EXCEPT ![p] =
       Append(@, FsCall("touch", downloaded_models[p][k[p]].confirmation_file, FALSE))]
  /\ Raise(p, "OSError", << <<"OSError">>, downloaded_models[p][k[p]].confirmation_file >>)
  /\ UNCHANGED <<envvars, fsvars, items, offered, selected, pos, downloaded_models, k>>

\* cli.py:110: is the provider marker written
WritesMarker(c, dm) == dm # <<>> /\ ProviderConfirmationFile(c) # None

\* cli.py:110-149
WriteMarker(p) ==
  /\ pc[p] = "marker"
  /\ files' = IF WritesMarker(cfg, downloaded_models[p])
              THEN CreateConfirmationFile(ProviderConfirmationFile(cfg), files)
              ELSE files
  /\ trace' = [trace EXCEPT ![p] =
       IF WritesMarker(cfg, downloaded_models[p])
       THEN Append(@, FsCall("touch", ProviderConfirmationFile(cfg), TRUE))
       ELSE @]
  /\ Finish(p, "done")
  /\ UNCHANGED <<envvars, symlinks, artifacts, items, offered, selected, pos,
                 downloaded_models, k>>

WriteMarkerFail(p) ==
  /\ pc[p] = "marker"
  /\ WritesMarker(cfg, downloaded_models[p])
  /\ trace' = [trace EXCEPT ![p] = Append(@, FsCall("touch", ProviderConfirmationFile(cfg), FALSE))]
  /\ Raise(p, "OSError", << <<"OSError">>, ProviderConfirmationFile(cfg) >>)
  /\ UNCHANGED <<envvars, fsvars, items, offered, selected, pos, downloaded_models, k>>

\* the user interrupts the process between two steps.  While the selector is
\* up, questionary turns the interrupt into an empty answer (see Select);
\* while items are fetched the process waits for hf or podman, and the
\* interrupt ends that call (see PullModelFail and PullOciFail)
Interrupt(p) ==
  /\ pc[p] \in {"link", "unlink", "symlink", "confirm", "marker"}
  /\ Raise(p, "KeyboardInterrupt", <<>>)
  /\ UNCHANGED <<envvars, fsvars, items, offered, selected, pos, downloaded_models, k,
                 trace>>

\* ---------------------------------------------------------- specification
Step(p) ==
  \/ StartRunInvalidConfig(p)
  \/ StartRunNoPodman(p)
  \/ StartRunNoItems(p)
  \/ StartRun(p)
  \/ Select(p)
  \/ PullModelOk(p)
  \/ PullModelFail(p)
  \/ PullOciOk(p)
  \/ PullOciFail(p)
  \/ PullOciConfirmFail(p)
  \/ LinkLExists(p)
  \/ UnlinkOk(p)
  \/ UnlinkFail(p)
  \/ SymlinkOk(p)
  \/ SymlinkFail(p)
  \/ ConfirmModel(p)
  \/ ConfirmModelFail(p)
  \/ WriteMarker(p)
  \/ WriteMarkerFail(p)
  \/ Interrupt(p)

\* one process at a time: the runs of process 1 follow one another
Next == Step(1)

Spec == Init /\ [][Next]_vars

TypeOK ==
  /\ cfg \in Configs
  /\ \A p \in Procs :
       /\ pc[p] \in {"idle", "select", "fetch", "link", "unlink", "symlink", "confirm",
                     "marker", "done", "aborted"}
       /\ pos[p] \in 1..(Len(selected[p]) + 1)
       /\ exit_code[p] \in {<<>>, <<0>>, <<1>>}

\* ------------------------------------------------- utils.verify_checksum
Bytes == {0, 1}

\* file contents and response bodies
Contents == UNION {[1..n -> Bytes] : n \in 0..MaxBody}

Min(a, b) == IF a <= b THEN a ELSE b

\* hashlib.sha256 is outside the repository; it is represented by a digest
\* of one byte with the same interface: a state, update() over the bytes
\* handed to it, hexdigest() in lowercase hex
Sha256New == [h |-> 0, n |-> 0]

RECURSIVE Sha256Update(_, _)
Sha256Update(sha, data) ==
  IF data = <<>> THEN sha
  ELSE Sha256Update([h |-> (31 * sha.h + Head(data) + 1) % 256, n |-> sha.n + 1],
                    Tail(data))

HexDigits == <<"0", "1", "2", "3", "4", "5", "6", "7", "8", "9",
               "a", "b", "c", "d", "e", "f">>

\* a hex string is the sequence of its characters
HexDigest(sha) ==
  LET d == (sha.h + 97 * sha.n) % 256
  IN <<HexDigits[(d \div 16) + 1], HexDigits[(d % 16) + 1]>>

\* utils.py:25-27, the file is read ChunkSize bytes at a time until it is
\* exhausted, each chunk going to update()
RECURSIVE ReadAndHash(_, _)
ReadAndHash(sha, rest) ==
  IF rest = <<>> THEN sha
  ELSE LET n == Min(ChunkSize, Len(rest))
       IN ReadAndHash(Sha256Update(sha, SubSeq(rest, 1, n)), Drop(rest, n))

UpperChar(c) ==
  CASE c = "a" -> "A" [] c = "b" -> "B" [] c = "c" -> "C"
    [] c = "d" -> "D" [] c = "e" -> "E" [] c = "f" -> "F" [] OTHER -> c

Upper(str) == [i \in DOMAIN str |-> UpperChar(str[i])]

\* faulty variant: the two hex strings are compared without regard to case
VerifyChecksum_IgnoresCase(content, expected_checksum) ==
  Upper(HexDigest(ReadAndHash(Sha256New, content))) = Upper(expected_checksum)

\* utils.py:14-28
VerifyChecksum(content, expected_checksum) ==
  HexDigest(ReadAndHash(Sha256New, content)) = expected_checksum

\* expected values a caller may hand in for a file with the given content:
\* its digest, the digest in upper case, with a blank before or after it,
\* cut short, and the digest of another content
Expecteds(content) ==
  LET hex == HexDigest(Sha256Update(Sha256New, content))
  IN { hex, Upper(hex), hex \o <<" ">>, <<" ">> \o hex, <<hex[1]>>,
       HexDigest(Sha256Update(Sha256New, <<1>> \o content)) }

\* ----------------------------------------- direct calls of the Downloader
\* what download() has: left alone by a direct call
runvars == <<cfg, podman, symlinks, artifacts, pc, items, offered, selected, pos,
             downloaded_models, k, exit_code, output, trace>>

Dest == <<"d", "f.bin">>

\* downloader.py:46, dest + ".confirmed"
Confirmed(dest) == Join(DirName(dest), dest[Len(dest)] \o ".confirmed")

\* verify_checksum(file_path, expected_checksum) on a file with some content
VerifyCalls ==
  {[fn |-> "verify_checksum", content |-> c, expected |-> e] :
     c \in Contents, e \in UNION {Expecteds(b) : b \in Contents}}

\* download_file(url, dest, checksum): what the server answers, what the
\* response body is, the checksum handed in (None, "" or an expected value),
\* and whether an earlier download left dest and its confirmation file
DownloadCalls ==
  UNION { {[fn |-> "download_file", response |-> r, body |-> b, checksum |-> c, prior |-> pr] :
             r \in {"unreachable", "404", "200"},
             c \in {Nothing, Some(<<>>)} \cup {Some(e) : e \in Expecteds(b)},
             pr \in BOOLEAN}
          : b \in Contents }

\* pull_oci(image, confirmation_file, containerfile, build_args)
PullOciCalls ==
  {[fn |-> "pull_oci", image |-> "img", confirmation_file |-> <<"r", "oci", ".img_ready">>,
    containerfile |-> cf, build_args |-> ba] :
     cf \in {Nothing, Some(<<>>), Some(<<"Containerfile">>), Some(<<"ctx", "Containerfile">>)},
     ba \in {Nothing, Some(<<>>), Some(<<"A=1">>), Some(<<"A=1", "B=2">>),
             Some(<<"B=2", "A=1">>)}}

\* pull_model(_provider, repo_name, model_name, location, _confirmation_file):
\* the providers validate_config accepts, None and one it would reject; a
\* location with and without a directory part
PullModelCalls ==
  {[fn |-> "pull_model", provider |-> pr, repo_name |-> "repo1", model_name |-> "a.gguf",
    location |-> loc, confirmation_file |-> <<"r", "c", ".m1_ready">>] :
     pr \in KnownModelProviders \cup {None, "bogus"},
     loc \in {<<"r", "m", "m1.gguf">>, <<"r", "m1.gguf">>, <<"m1.gguf">>}}

\* create_confirmation_file(path): how many of the directories above path
\* are there already, and the file an earlier call or someone else left at
\* path, if any (then its directories are all there)
ConfirmPaths == {<<".ready">>, <<"r", ".ready">>, <<"r", "oci", ".ready">>}

ConfirmCalls ==
  UNION { UNION { {[fn |-> "create_confirmation_file", path |-> pth, depth |-> d, prior |-> pr] :
                     pr \in {Nothing} \cup
                            (IF d = Len(pth) - 1 THEN {Some(c) : c \in Contents} ELSE {})}
                  : d \in 0..(Len(pth) - 1) }
          : pth \in ConfirmPaths }

\* the directories on the way to name, name included
Parents(name) == {SubSeq(name, 1, i) : i \in 1..Len(name)}

\* os.makedirs(name, exist_ok=True) for a name that is not empty
MakeDirs(name, ds) == ds \cup Parents(name)

\* faulty variant: the file is opened for writing, which empties it
Touch_Truncates(f) == [exists |-> TRUE, content |-> <<>>]

\* Path.touch(): a file that is there keeps its bytes, else an empty one is made
Touch(f) == IF f.exists THEN f ELSE [exists |-> TRUE, content |-> <<>>]

Returned(value) == [state |-> "returned", value |-> value]

Raised(exception) == [state |-> "raised", value |-> exception]

\* a method of the Downloader, or verify_checksum, is called on its own
UnitInit ==
  /\ cfg = [model_provider |-> None, oci_provider |-> "podman", default_gguf |-> None,
            models |-> <<>>, oci |-> <<>>]
  /\ podman = FALSE
  /\ symlinks = {}
  /\ artifacts = <<>>
  /\ pc = [p \in Procs |-> "idle"]
  /\ items = [p \in Procs |-> <<>>]
  /\ offered = [p \in Procs |-> {}]
  /\ selected = [p \in Procs |-> <<>>]
  /\ pos = [p \in Procs |-> 1]
  /\ downloaded_models = [p \in Procs |-> <<>>]
  /\ k = [p \in Procs |-> 1]
  /\ exit_code = [p \in Procs |-> <<>>]
  /\ output = [p \in Procs |-> NoOutput]
  /\ trace = [p \in Procs |-> <<>>]
  /\ call \in VerifyCalls \cup DownloadCalls \cup PullOciCalls \cup ConfirmCalls
             \cup PullModelCalls
  /\ upc = "called"
  /\ disk = IF call.fn = "verify_checksum" THEN [exists |-> TRUE, content |-> call.content]
            ELSE IF call.fn = "download_file" /\ call.prior
                 THEN [exists |-> TRUE, content |-> <<1>>]
            ELSE IF call.fn = "create_confirmation_file" /\ call.prior.some
                 THEN [exists |-> TRUE, content |-> call.prior.val]
            ELSE NoFile
  /\ dirs = IF call.fn = "download_file" /\ call.prior THEN Parents(DirName(Dest))
            ELSE IF call.fn = "create_confirmation_file"
                 THEN Parents(SubSeq(call.path, 1, call.depth))
            ELSE {}
  /\ files = IF call.fn = "download_file" /\ call.prior THEN {Confirmed(Dest)}
             ELSE IF call.fn = "create_confirmation_file" /\ call.prior.some
                  THEN {call.path}
             ELSE {}
  /\ effects = <<>>
  /\ result = NotCalled

\* utils.py:14-28 called on the file
VerifyChecksumCall ==
  /\ upc = "called"
  /\ call.fn = "verify_checksum"
  /\ result' = Returned(IF VerifyChecksum(disk.content, call.expected) THEN "True" ELSE "False")
  /\ upc' = "end"
  /\ UNCHANGED <<runvars, dirs, files, call, disk, effects>>

\* downloader.py:27-29, the directory of dest is made; requests.get fails or raise_for_status raises
DownloadFileGetFail ==
  /\ upc = "called"
  /\ call.fn = "download_file"
  /\ call.response # "200"
  /\ effects' = Append(effects, [op |-> "get", arg |-> <<call.response>>, ok |-> FALSE])
  /\ dirs' = MakeDirs(DirName(Dest), dirs)
  /\ result' = Raised(IF call.response = "unreachable" THEN "ConnectionError" ELSE "HTTPError")
  /\ upc' = "end"
  /\ UNCHANGED <<runvars, files, call, disk>>

\* downloader.py:27-32, the directory of dest is made; success status;
\* open(dest, "wb") empties the file
DownloadFileOpen ==
  /\ upc = "called"
  /\ call.fn = "download_file"
  /\ call.response = "200"
  /\ effects' = Append(effects, [op |-> "get", arg |-> <<call.response>>, ok |-> TRUE])
  /\ dirs' = MakeDirs(DirName(Dest), dirs)
  /\ disk' = [exists |-> TRUE, content |-> <<>>]
  /\ upc' = IF call.body = <<>> THEN "verify" ELSE "write"
  /\ UNCHANGED <<runvars, files, call, result>>

\* downloader.py:41-43, the next chunk of the body goes to the file
DownloadFileWrite ==
  /\ upc = "write"
  /\ LET done == Len(disk.content)
         n == Min(ChunkSize, Len(call.body) - done)
     IN /\ disk' = [disk EXCEPT !.content = @ \o SubSeq(call.body, done + 1, done + n)]
        /\ upc' = IF done + n = Len(call.body) THEN "verify" ELSE "write"
  /\ UNCHANGED <<runvars, dirs, files, call, effects, result>>

\* downloader.py:41, the connection breaks while the body is streamed
DownloadFileStreamFail ==
  /\ upc = "write"
  /\ result' = Raised("ChunkedEncodingError")
  /\ upc' = "end"
  /\ UNCHANGED <<runvars, dirs, files, call, disk, effects>>

\* downloader.py:44-45
DownloadFileChecksumMismatch ==
  /\ upc = "verify"
  /\ Truthy(call.checksum)
  /\ ~VerifyChecksum(disk.content, call.checksum.val)
  /\ result' = Raised("ValueError: Checksum mismatch")
  /\ upc' = "end"
  /\ UNCHANGED <<runvars, dirs, files, call, disk, effects>>

\* faulty variant: the confirmation file is written whatever the checksum says
DownloadFileConfirm_Unverified ==
  /\ upc = "verify"
  /\ files' = CreateConfirmationFile(Confirmed(Dest), files)
  /\ effects' = Append(effects, [op |-> "touch", arg |-> Confirmed(Dest), ok |-> TRUE])
  /\ result' = Returned("None")
  /\ upc' = "end"
  /\ UNCHANGED <<runvars, dirs, call, disk>>

\* downloader.py:44-47, no checksum to verify or the checksum matches
DownloadFileConfirm ==
  /\ upc = "verify"
  /\ ~(Truthy(call.checksum) /\ ~VerifyChecksum(disk.content, call.checksum.val))
  /\ files' = CreateConfirmationFile(Confirmed(Dest), files)
  /\ effects' = Append(effects, [op |-> "touch", arg |-> Confirmed(Dest), ok |-> TRUE])
  /\ result' = Returned("None")
  /\ upc' = "end"
  /\ UNCHANGED <<runvars, dirs, call, disk>>

\* an argument vector is a sequence of words; a word is a sequence of
\* strings, a path having one string per component
RECURSIVE BuildArgWords(_)
BuildArgWords(args) ==
  IF args = <<>> THEN <<>>
  ELSE << <<"--build-arg">>, <<Head(args)>> >> \o BuildArgWords(Tail(args))

\* faulty variant: one --build-arg followed by all the arguments
PodmanCmd_OneFlag(image, containerfile, build_args) ==
  IF Truthy(containerfile)
  THEN << <<"podman">>, <<"build">>, <<"-t">>, <<image>> >>
       \o (IF Truthy(build_args)
           THEN << <<"--build-arg">> >> \o [i \in DOMAIN build_args.val |-> <<build_args.val[i]>>]
           ELSE <<>>)
       \o << <<"-f">>, containerfile.val, DirName(containerfile.val) >>
  ELSE << <<"podman">>, <<"pull">>, <<image>> >>

\* downloader.py:75-84, the command pull_oci runs
PodmanCmd(image, containerfile, build_args) ==
  IF Truthy(containerfile)
  THEN << <<"podman">>, <<"build">>, <<"-t">>, <<image>> >>
       \o (IF Truthy(build_args) THEN BuildArgWords(build_args.val) ELSE <<>>)
       \o << <<"-f">>, containerfile.val, DirName(containerfile.val) >>
  ELSE << <<"podman">>, <<"pull">>, <<image>> >>

\* downloader.py:66-85, podman exits with status 0
PullOciCall ==
  /\ upc = "called"
  /\ call.fn = "pull_oci"
  /\ effects' = Append(effects,
       [op |-> "run", arg |-> PodmanCmd(call.image, call.containerfile, call.build_args),
        ok |-> TRUE])
  /\ dirs' = MakeDirs(DirName(call.confirmation_file), dirs)
  /\ files' = CreateConfirmationFile(call.confirmation_file, files)
  /\ result' = Returned("None")
  /\ upc' = "end"
  /\ UNCHANGED <<runvars, call, disk>>

\* downloader.py:74-84, podman exits with a nonzero status
PullOciCallFail ==
  /\ upc = "called"
  /\ call.fn = "pull_oci"
  /\ effects' = Append(effects,
       [op |-> "run", arg |-> PodmanCmd(call.image, call.containerfile, call.build_args),
        ok |-> FALSE])
  /\ dirs' = MakeDirs(DirName(call.confirmation_file), dirs)
  /\ result' = Raised("CalledProcessError")
  /\ upc' = "end"
  /\ UNCHANGED <<runvars, files, call, disk>>

\* faulty variant: the provider's own tool fetches the model
PullModelCmd_ByProvider(provider, repo_name, model_name, location) ==
  IF provider = "ollama"
  THEN << <<"ollama">>, <<"pull">>, <<repo_name>> >>
  ELSE << <<"hf">>, <<"download">>, <<repo_name>>, <<model_name>>, <<"--local-dir">>,
          DirName(location) >>

\* downloader.py:58-61, the command pull_model runs
PullModelCmd(provider, repo_name, model_name, location) ==
  << <<"hf">>, <<"download">>, <<repo_name>>, <<model_name>>, <<"--local-dir">>,
     DirName(location) >>

\* downloader.py:58-63: the directory is made and hf runs, exiting with
\* status 0 or not
PullModelCall ==
  /\ upc = "called"
  /\ call.fn = "pull_model"
  /\ DirName(call.location) # <<>>
  /\ dirs' = MakeDirs(DirName(call.location), dirs)
  /\ \E ok \in BOOLEAN :
       /\ effects' = Append(effects,
            [op |-> "run",
             arg |-> PullModelCmd(call.provider, call.repo_name, call.model_name,
                                  call.location),
             ok |-> ok])
       /\ result' = IF ok THEN Returned("None") ELSE Raised("CalledProcessError")
  /\ upc' = "end"
  /\ UNCHANGED <<runvars, files, call, disk>>

\* downloader.py:58-59, a location without a directory part: os.makedirs("")
\* raises
PullModelCallNoDir ==
  /\ upc = "called"
  /\ call.fn = "pull_model"
  /\ DirName(call.location) = <<>>
  /\ result' = Raised("FileNotFoundError")
  /\ upc' = "end"
  /\ UNCHANGED <<runvars, dirs, files, call, disk, effects>>

\* utils.py:37-38, the first call and a second one on the same path
CreateConfirmationFileCall ==
  /\ upc \in {"called", "again"}
  /\ call.fn = "create_confirmation_file"
  /\ DirName(call.path) # <<>>
  /\ dirs' = MakeDirs(DirName(call.path), dirs)
  /\ disk' = Touch(disk)
  /\ files' = CreateConfirmationFile(call.path, files)
  /\ effects' = Append(effects, [op |-> "touch", arg |-> call.path, ok |-> TRUE])
  /\ result' = Returned("None")
  /\ upc' = IF upc = "called" THEN "again" ELSE "end"
  /\ UNCHANGED <<runvars, call>>

\* utils.py:37, a path without a directory part: os.makedirs("") raises
CreateConfirmationFileNoDir ==
  /\ upc \in {"called", "again"}
  /\ call.fn = "create_confirmation_file"
  /\ DirName(call.path) = <<>>
  /\ result' = Raised("FileNotFoundError")
  /\ upc' = IF upc = "called" THEN "again" ELSE "end"
  /\ UNCHANGED <<runvars, dirs, files, call, disk, effects>>

UnitNext ==
  \/ VerifyChecksumCall
  \/ DownloadFileGetFail
  \/ DownloadFileOpen
  \/ DownloadFileWrite
  \/ DownloadFileStreamFail
  \/ DownloadFileChecksumMismatch
  \/ DownloadFileConfirm
  \/ PullOciCall
  \/ PullOciCallFail
  \/ CreateConfirmationFileCall
  \/ CreateConfirmationFileNoDir
  \/ PullModelCall
  \/ PullModelCallNoDir

UnitSpec == UnitInit /\ [][UnitNext]_vars

\* ------------------------------------------------------- shared vocabulary
ModelConfs == {cfg.models[i].confirmation_file : i \in DOMAIN cfg.models}

Linking(p) == pc[p] \in {"link", "unlink", "symlink"}

NewlyFetched(p) == Range(downloaded_models[p])

Last(s) == s[Len(s)]

TraceOps(p) == {trace[p][n].op : n \in DOMAIN trace[p]}

\* no model confirmation file has been created since the run of p started:
\* the models that lacked it when the offer list was built still lack it
NoModelConfirmed(p) ==
  \A i \in offered[p] : ~Exists(cfg.models[i].confirmation_file, files)

\* the models whose names are all different (no two entries share model_name)
DistinctNames == \A i, j \in DOMAIN cfg.models :
                   cfg.models[i].model_name = cfg.models[j].model_name => i = j

\* ----------------------------------------------------------------- claims
\* C1: while the link step of a run is under way no newly fetched model of
\* that run has its confirmation file, and when the run has completed
\* successfully every newly fetched model has it.
C1_ConfirmationAfterLink ==
  /\ Linking(1) => \A m \in NewlyFetched(1) : ~Exists(m.confirmation_file, files)
  /\ pc[1] = "done" => \A m \in NewlyFetched(1) : Exists(m.confirmation_file, files)

\* C2: when os.symlink fails, the run is over at once: no model
\* confirmation file and no provider marker has been created since the run
\* started, the exit code is 1 and the message says 'Failed to create symlink'.
C2_SymlinkFailureContained ==
  \A n \in DOMAIN trace[1] :
    (trace[1][n].op = "symlink" /\ ~trace[1][n].ok) =>
      /\ n = Len(trace[1])
      /\ pc[1] = "aborted"
      /\ NoModelConfirmed(1)
      /\ "touch" \notin TraceOps(1)
      /\ exit_code[1] = <<1>>
      /\ output[1].prefix = "Error: "
      /\ output[1].msg[1] = <<"Failed to create symlink">>

C2_Witness ==
  /\ pc[1] = "aborted"
  /\ trace[1] # <<>>
  /\ Last(trace[1]).op = "symlink" /\ ~Last(trace[1]).ok
  /\ Len(downloaded_models[1]) >= 2
  /\ \A m \in NewlyFetched(1) : ~Exists(m.confirmation_file, files)

\* C3: when an entry is at the link path and os.unlink fails, the run is
\* over at once: os.symlink has not been called, the entry is still at the
\* link path, the message is 'Failed to remove existing symlink <path>', the
\* exit code is 1 and no model confirmation file has been written.
C3_RemovalFailureContained ==
  \A n \in DOMAIN trace[1] :
    (trace[1][n].op = "unlink" /\ ~trace[1][n].ok) =>
      /\ n = Len(trace[1])
      /\ pc[1] = "aborted"
      /\ "symlink" \notin TraceOps(1)
      /\ LExists(SymlinkPath(ModelsDir(cfg)), files, symlinks)
      /\ exit_code[1] = <<1>>
      /\ output[1].prefix = "Error: "
      /\ output[1].msg[1] = <<"Failed to remove existing symlink">>
      /\ output[1].msg[2] = SymlinkPath(ModelsDir(cfg))
      /\ NoModelConfirmed(1)

C3_Witness ==
  /\ pc[1] = "aborted"
  /\ trace[1] # <<>>
  /\ Last(trace[1]).op = "unlink" /\ ~Last(trace[1]).ok
  /\ \E l \in symlinks : l.path = SymlinkPath(ModelsDir(cfg)) /\ l.target = LinkTarget(cfg)
  /\ NewlyFetched(1) # {}

\* C4: a model's confirmation file exists only if hf download for that model
\* has completed successfully, in this run or an earlier one; this holds in
\* every state, also after an interrupted or aborted run.
C4_ConfirmedOnlyIfFetched ==
  \A i \in DOMAIN cfg.models :
    Exists(cfg.models[i].confirmation_file, files) =>
      artifacts[HfArgs(cfg.models[i])] = "complete"

C4_Witness ==
  /\ pc[1] = "aborted"
  /\ \E i, j \in DOMAIN cfg.models :
       /\ Exists(cfg.models[i].confirmation_file, files)
       /\ artifacts[HfArgs(cfg.models[j])] = "partial"
       /\ ~Exists(cfg.models[j].confirmation_file, files)

\* C5: when the offer list goes to the selector, a configured model is on it
\* if and only if its confirmation file does not exist; what is in its
\* destination directory plays no part.
C5_OfferedIffUnconfirmed ==
  pc[1] = "select" =>
    /\ \A i \in DOMAIN cfg.models :
         i \in offered[1] <=> ~Exists(cfg.models[i].confirmation_file, files)
    /\ Cardinality({n \in DOMAIN items[1] : items[1][n].type = "model"}) = Cardinality(offered[1])
    /\ \A i \in offered[1] :
         \E n \in DOMAIN items[1] :
           items[1][n] = [name |-> cfg.models[i].model_name, type |-> "model"]

C5_Witness ==
  /\ pc[1] = "select"
  /\ \E i, j \in DOMAIN cfg.models :
       /\ i \in offered[1] /\ artifacts[HfArgs(cfg.models[i])] = "complete"
       /\ j \notin offered[1] /\ artifacts[HfArgs(cfg.models[j])] = "complete"

\* the step calls hf download for model i
FetchesModel(i) ==
  /\ Len(trace'[1]) = Len(trace[1]) + 1
  /\ Last(trace'[1]).op = "hf"
  /\ Last(trace'[1]).arg = HfCall(cfg.models[i], TRUE).arg

\* the step starts a run that offers model i
OffersModel(i) == CanStart(1) /\ i \in offered'[1]

\* C6: once a model's confirmation file exists, no step of any later run
\* puts that model on the offer list or calls hf download for it.
C6_ConfirmedNeverFetchedAgain ==
  [][\A i \in DOMAIN cfg.models :
       Exists(cfg.models[i].confirmation_file, files) => ~OffersModel(i) /\ ~FetchesModel(i)]_vars

\* C7 as stated: a run that follows a fully successful run in which
\* something was selected is offered nothing (the only steps a finished
\* run can take are those that start the next run).
C7_SecondRunOffersNothing ==
  [][(pc[1] = "done" /\ selected[1] # <<>>) => items'[1] = <<>>]_vars

\* C7 amended: the run that follows a fully successful run puts no model
\* the earlier run fetched on its offer list; the list holds one entry per
\* model that still lacks its confirmation file and one per image.
C7_FetchedNotReoffered ==
  [][pc[1] = "done" =>
       /\ \A i \in DOMAIN cfg.models : cfg.models[i] \in NewlyFetched(1) => i \notin offered'[1]
       /\ Len(items'[1]) = Cardinality(offered'[1]) + Len(cfg.oci)
       /\ \A i \in DOMAIN cfg.models :
            i \in offered'[1] <=> ~Exists(cfg.models[i].confirmation_file, files)]_vars

\* a run has written the provider marker, so it fetched a model and ended
\* successfully; the run now at the selector is offered the model that is
\* left and the image
C7_Witness ==
  /\ pc[1] = "select"
  /\ cfg.models # <<>>
  /\ Exists(ProviderConfirmationFile(cfg), files)
  /\ files \cap ModelConfs # {}
  /\ offered[1] # {}
  /\ Len(items[1]) = Cardinality(offered[1]) + Len(cfg.oci)
  /\ Len(cfg.oci) > 0

\* the entry at the default-link path of model i is one symlink and it
\* leads to that model's destination
LinkLeadsTo(i) ==
  LET path == Join(DirName(cfg.models[i].confirmation_file), "default-model.gguf")
  IN /\ path \notin files
     /\ \E l \in symlinks :
          /\ l.path = path
          /\ Resolve(l) = cfg.models[i].location
          /\ \A o \in symlinks : o.path = path => o = l

FirstNamed(i, name) ==
  /\ cfg.models[i].model_name = name
  /\ \A j \in 1..(i - 1) : cfg.models[j].model_name # name

\* C8: with default_gguf configured, after a successful run that fetched a
\* model, default-model.gguf in the directory of the default model's
\* confirmation file resolves to that model's destination.
C8_DefaultLinkResolves ==
  (pc[1] = "done" /\ downloaded_models[1] # <<>> /\ cfg.default_gguf # None) =>
    \A i \in DOMAIN cfg.models : FirstNamed(i, cfg.default_gguf) => LinkLeadsTo(i)

C8_Witness ==
  /\ pc[1] = "done"
  /\ Len(cfg.models) >= 2
  /\ cfg.default_gguf = cfg.models[2].model_name
  /\ cfg.models[1].model_name # cfg.default_gguf
  /\ downloaded_models[1] = <<cfg.models[2], cfg.models[1]>>
  /\ DirName(cfg.models[2].confirmation_file) # DirName(cfg.models[1].confirmation_file)
  /\ \E l \in symlinks : l.target = <<"models", "m2.gguf">>

\* C9: without default_gguf, after a successful run that fetched a model,
\* the default link resolves to the destination of the first configured
\* model, fetched in this run or not.
C9_FallbackFirstConfigured ==
  (pc[1] = "done" /\ downloaded_models[1] # <<>> /\ cfg.default_gguf = None) => LinkLeadsTo(1)

C9_Witness ==
  /\ pc[1] = "done"
  /\ cfg.default_gguf = None
  /\ downloaded_models[1] # <<>>
  /\ cfg.models[1] \notin NewlyFetched(1)
  /\ DistinctNames
  /\ \E l \in symlinks : l.target = <<"..", "m", "m1.gguf">>

IsFetchCall(c) == c.op \in {"hf", "podman"}

\* C10: when hf or podman fails for a selected item, the run is over at
\* once: the failed item is the last one processed, the link step has not
\* run, no model confirmation file has been written in this run, and the
\* confirmation files of the images pulled before are still there.
C10_FetchFailureAborts ==
  \A n \in DOMAIN trace[1] :
    (IsFetchCall(trace[1][n]) /\ ~trace[1][n].ok) =>
      /\ n = Len(trace[1])
      /\ pc[1] = "aborted"
      /\ pos[1] = n
      /\ TraceOps(1) \subseteq {"hf", "podman"}
      /\ NoModelConfirmed(1)
      /\ \A m \in 1..(n - 1) :
           trace[1][m].op = "podman" =>
             \E j \in DOMAIN cfg.oci :
               /\ trace[1][m].arg = <<cfg.oci[j].image>>
               /\ Exists(cfg.oci[j].confirmation_file, files)

C10_Witness ==
  /\ pc[1] = "aborted"
  /\ trace[1] # <<>>
  /\ IsFetchCall(Last(trace[1])) /\ ~Last(trace[1]).ok
  /\ downloaded_models[1] # <<>>
  /\ \A m \in NewlyFetched(1) : ~Exists(m.confirmation_file, files)
  /\ pos[1] < Len(selected[1])

\* the step calls podman for image j, with the given outcome
PodmanStep(j, ok) ==
  /\ Len(trace'[1]) = Len(trace[1]) + 1
  /\ Last(trace'[1]) = PodmanCall(cfg.oci[j], ok)

\* C11: the step in which podman succeeds for a selected image also creates
\* that image's confirmation file, unless writing the file itself fails and
\* ends the run; so whenever download() has moved past a selected image the
\* file exists.  A step in which podman fails creates no file.
C11_ImageConfirmedAtOnce ==
  [][/\ \A j \in DOMAIN cfg.oci :
          /\ (PodmanStep(j, TRUE) /\ pc'[1] # "aborted") =>
               /\ Exists(cfg.oci[j].confirmation_file, files')
               /\ pos'[1] = pos[1] + 1
          /\ PodmanStep(j, FALSE) => (files' = files /\ pc'[1] = "aborted")
     /\ \A n \in 1..(pos'[1] - 1) :
          selected'[1][n].type = "oci" =>
            \E j \in DOMAIN cfg.oci :
              /\ cfg.oci[j].image = selected'[1][n].name
              /\ Exists(cfg.oci[j].confirmation_file, files')]_vars

\* the first run has pulled the image selected first and is about to fetch
\* the model selected after it
C11_Witness ==
  /\ pc[1] = "fetch"
  /\ pos[1] = 2
  /\ selected[1][1].type = "oci"
  /\ selected[1][2].type = "model"
  /\ files = {cfg.oci[1].confirmation_file}

FailedCalls(p) == {n \in DOMAIN trace[p] : ~trace[p][n].ok}

\* C12: a run that ends successfully exits with code 0 and only such a run
\* does; a run ended by an invalid configuration, by a failed hf or podman
\* call or by a failed removal or creation of the default link exits with a
\* nonzero code.
C12_ExitCode ==
  /\ pc[1] = "done" => (exit_code[1] = <<0>> /\ FailedCalls(1) = {})
  /\ exit_code[1] = <<0>> => pc[1] = "done"
  /\ pc[1] = "aborted" => exit_code[1] = <<1>>
  /\ FailedCalls(1) # {} => exit_code[1] = <<1>>
  /\ (~ValidateConfig(cfg) /\ pc[1] # "idle") => exit_code[1] = <<1>>

C12_Witness ==
  /\ pc[1] = "aborted"
  /\ exit_code[1] = <<1>>
  /\ trace[1] # <<>>
  /\ Last(trace[1]).op = "symlink" /\ ~Last(trace[1]).ok
  /\ output[1].prefix = "Error: "
  /\ files # {}

\* C13: a run ended by a failure (not by the user's interrupt) has printed
\* one 'Error: ...' line with the description of the failure.
C13_FailuresReported ==
  (pc[1] = "aborted" /\ output[1].prefix # "Aborted!") =>
    (output[1].prefix = "Error: " /\ output[1].msg # <<>>)

LinkCalls(p) == {n \in DOMAIN trace[p] : trace[p][n].op = "lexists"}

\* C14: create_default_symlink is entered at most once in a run, and only
\* when a model was newly fetched and every selected item has been fetched
\* without failure; os.unlink and os.symlink are called only inside it.
C14_LinkOnceAfterAllFetched ==
  /\ Cardinality(LinkCalls(1)) <= 1
  /\ \A n \in LinkCalls(1) :
       /\ downloaded_models[1] # <<>>
       /\ pos[1] = Len(selected[1]) + 1
       /\ n = Len(selected[1]) + 1
       /\ \A m \in 1..(n - 1) : IsFetchCall(trace[1][m]) /\ trace[1][m].ok
  /\ \A n \in DOMAIN trace[1] :
       trace[1][n].op \in {"unlink", "symlink"} => \E m \in LinkCalls(1) : m < n
  /\ Cardinality({n \in DOMAIN trace[1] : trace[1][n].op = "symlink"}) <= 1

C14_Witness ==
  /\ pc[1] = "confirm"
  /\ LinkCalls(1) = {3}
  /\ \E n \in DOMAIN selected[1] : selected[1][n].type = "oci"
  /\ Len(downloaded_models[1]) = 1

\* C15: with one image and no model configured, no run ever enters the link
\* step or writes a provider marker; the only file there can be is the
\* image's confirmation file, and it is there after a run that fetched the
\* image.
C15_ImageOnlyRun ==
  (cfg.models = <<>> /\ Len(cfg.oci) = 1) =>
    /\ TraceOps(1) \subseteq {"podman"}
    /\ symlinks = {}
    /\ files \subseteq {cfg.oci[1].confirmation_file}
    /\ (pc[1] = "done" /\ selected[1] # <<>>) => files = {cfg.oci[1].confirmation_file}

C15_Witness ==
  /\ cfg.models = <<>>
  /\ Len(cfg.oci) = 1
  /\ pc[1] = "done"
  /\ selected[1] # <<>>
  /\ trace[1] = <<PodmanCall(cfg.oci[1], TRUE)>>
  /\ files = {cfg.oci[1].confirmation_file}

\* .neurobik-ready beside the first configured model's confirmation file
MarkerPath == Join(DirName(cfg.models[1].confirmation_file), ".neurobik-ready")

MarkerTouches(p) ==
  {n \in DOMAIN trace[p] :
     trace[p][n].op = "touch" /\ Last(trace[p][n].arg) = ".neurobik-ready"}

\* C16: the only .neurobik-ready there can be is the one beside the first
\* configured model's confirmation file, and none when no model is
\* configured; a run has written it exactly when it has ended successfully
\* having newly fetched a model, and it writes it after the confirmation
\* file of every newly fetched model.
C16_MarkerAfterConfirmations ==
  /\ \A f \in files :
       Last(f) = ".neurobik-ready" => (cfg.models # <<>> /\ f = MarkerPath)
  /\ (\E n \in MarkerTouches(1) : trace[1][n].ok)
       <=> (pc[1] = "done" /\ downloaded_models[1] # <<>>)
  /\ \A n \in MarkerTouches(1) :
       /\ trace[1][n].arg = MarkerPath
       /\ trace[1][n].ok => Exists(MarkerPath, files)
       /\ downloaded_models[1] # <<>>
       /\ \A m \in NewlyFetched(1) :
            /\ Exists(m.confirmation_file, files)
            /\ \E t \in 1..(n - 1) : trace[1][t] = FsCall("touch", m.confirmation_file, TRUE)

C16_Witness ==
  /\ pc[1] = "done"
  /\ Len(cfg.models) = 2
  /\ cfg.default_gguf = cfg.models[2].model_name
  /\ cfg.models[1].model_name # cfg.default_gguf
  /\ downloaded_models[1] = <<cfg.models[2]>>
  /\ Exists(MarkerPath, files)
  /\ ~Exists(cfg.models[1].confirmation_file, files)

\* nothing on disk and nothing done: no file, no link, no download, no
\* offer list, no selection, no external call
Untouched ==
  /\ files = {}
  /\ symlinks = {}
  /\ \A a \in DOMAIN artifacts : artifacts[a] = "absent"
  /\ items[1] = <<>>
  /\ selected[1] = <<>>
  /\ trace[1] = <<>>

ConfigErrorReported ==
  /\ exit_code[1] = <<1>>
  /\ output[1].prefix = "Error: "
  /\ output[1].msg # <<>>
  /\ output[1].msg[1] \in { <<"Unsupported model_provider">>,
                            <<"Only podman supported for OCI">>,
                            <<"default_gguf not found in configured models">> }

UnknownModelProvider == cfg.model_provider \notin {None, "ollama", "llama.cpp", "ramalama"}

UnresolvedDefault ==
  cfg.default_gguf # None /\ cfg.default_gguf \notin ModelNames(cfg.models)

OtherImageProvider == cfg.oci_provider # "podman"

\* C17 as stated: a configuration with an unknown model provider, a default
\* that names no configured model or an image provider other than podman
\* is rejected with a configuration error by every run, and nothing is
\* touched.
C17_InvalidConfigRejected ==
  (UnknownModelProvider \/ UnresolvedDefault \/ OtherImageProvider) =>
    /\ Untouched
    /\ pc[1] \in {"idle", "aborted"}
    /\ pc[1] = "aborted" => ConfigErrorReported

\* C17 amended: a configuration with at least one model and an unknown
\* model provider or a default that names none of the models, or with at
\* least one image and an image provider other than podman, is rejected
\* with a configuration error by every run, before the podman check, and
\* nothing is touched.
C17_InvalidSectionRejected ==
  (\/ cfg.models # <<>> /\ (UnknownModelProvider \/ UnresolvedDefault)
   \/ cfg.oci # <<>> /\ OtherImageProvider) =>
    /\ Untouched
    /\ pc[1] \in {"idle", "aborted"}
    /\ pc[1] = "aborted" => ConfigErrorReported

C17_Witness ==
  /\ pc[1] = "aborted"
  /\ ~podman
  /\ cfg.models # <<>>
  /\ cfg.oci # <<>>
  /\ UnknownModelProvider
  /\ OtherImageProvider
  /\ output[1] = [prefix |-> "Error: ",
                  msg |-> << <<"Unsupported model_provider">>, <<"bogus">> >>]

\* the SHA-256 hex digest of a content, all of it hashed at once
TrueDigest(content) == HexDigest(Sha256Update(Sha256New, content))

\* C18: verify_checksum on a file with content C returns True when the
\* expected value is the hex digest of C and False for every other string:
\* the digest in upper case or with a blank added is another string.
C18_ChecksumExactMatch ==
  (call.fn = "verify_checksum" /\ result.state = "returned") =>
    result.value = (IF call.expected = TrueDigest(call.content) THEN "True" ELSE "False")

\* a file longer than one chunk is checked against its own digest written
\* in upper case, and the answer is False
C18_Witness ==
  /\ call.fn = "verify_checksum"
  /\ result = Returned("False")
  /\ Len(call.content) > ChunkSize
  /\ call.expected = Upper(TrueDigest(call.content))
  /\ call.expected # TrueDigest(call.content)

TouchedConfirmation == \E n \in DOMAIN effects : effects[n].op = "touch"

\* the files there were when download_file was called
FilesBefore == IF call.prior THEN {Confirmed(Dest)} ELSE {}

C20_PodmanArgv ==
  (call.fn = "pull_oci" /\ upc = "end") =>
    /\ Len(effects) = 1
    /\ effects[1].op = "run"
    /\ LET argv == effects[1].arg
           args == IF call.build_args.some THEN call.build_args.val ELSE <<>>
           n == Len(args)
       IN IF call.containerfile.some /\ call.containerfile.val # <<>>
          THEN /\ Len(argv) = 4 + 2 * n + 3
               /\ SubSeq(argv, 1, 4) = << <<"podman">>, <<"build">>, <<"-t">>, <<call.image>> >>
               /\ \A i \in 1..n :
                    /\ argv[4 + 2 * i - 1] = <<"--build-arg">>
                    /\ argv[4 + 2 * i] = <<args[i]>>
               /\ argv[4 + 2 * n + 1] = <<"-f">>
               /\ argv[4 + 2 * n + 2] = call.containerfile.val
               /\ argv[4 + 2 * n + 3] = DirName(call.containerfile.val)
          ELSE argv = << <<"podman">>, <<"pull">>, <<call.image>> >>

C20_Witness ==
  /\ call.fn = "pull_oci"
  /\ result = Returned("None")
  /\ call.containerfile = Some(<<"ctx", "Containerfile">>)
  /\ call.build_args = Some(<<"B=2", "A=1">>)
  /\ effects[1].ok
  /\ effects[1].arg[6] = <<"B=2">>

\* the command is invoked in a state in which the offer list comes out empty
NothingToOffer ==
  /\ CanStart(1)
  /\ ValidateConfig(cfg)
  /\ podman
  /\ cfg.oci = <<>>
  /\ \A i \in DOMAIN cfg.models : Exists(cfg.models[i].confirmation_file, files)

\* C21: a run that finds every configured model confirmed and no image
\* configured ends at once with exit code 0 and 'No items to download.': no
\* selection, no external call, and files, links and downloads stay as
\* they are.
C21_EmptyOfferEndsRun ==
  [][NothingToOffer =>
       /\ pc'[1] = "done"
       /\ exit_code'[1] = <<0>>
       /\ output'[1].msg = << <<"No items to download.">> >>
       /\ items'[1] = <<>>
       /\ selected'[1] = <<>>
       /\ trace'[1] = <<>>
       /\ UNCHANGED fsvars]_vars

\* an earlier run has fetched and confirmed both models and left the link
C21_Witness ==
  /\ pc[1] = "done"
  /\ items[1] = <<>>
  /\ output[1].msg = << <<"No items to download.">> >>
  /\ Len(cfg.models) = 2
  /\ ModelConfs \subseteq files
  /\ symlinks # {}

ImageEntries(p, j) ==
  {n \in DOMAIN items[p] : items[p][n] = [name |-> cfg.oci[j].image, type |-> "oci"]}

\* C22: whenever the offer list goes to the selector, every configured image
\* has its entry on it, whether its confirmation file exists or not.
C22_ImagesAlwaysOffered ==
  pc[1] = "select" => \A j \in DOMAIN cfg.oci : Cardinality(ImageEntries(1, j)) = 1

C22_Witness ==
  /\ pc[1] = "select"
  /\ cfg.oci # <<>>
  /\ Exists(cfg.oci[1].confirmation_file, files)
  /\ ImageEntries(1, 1) # {}
  /\ offered[1] = {}

\* the selection has just been made: the files are those the offer list
\* was built from
JustSelected == pc[1] = "fetch" /\ pos[1] = 1 /\ trace[1] = <<>>

\* C23 as stated: every entry of the selection, model or image, stands for
\* an artifact that had no confirmation file when the selection was built.
C23_SelectionUnconfirmed ==
  JustSelected =>
    \A n \in DOMAIN selected[1] :
      IF selected[1][n].type = "model"
      THEN \E i \in DOMAIN cfg.models :
             /\ cfg.models[i].model_name = selected[1][n].name
             /\ ~Exists(cfg.models[i].confirmation_file, files)
      ELSE \E j \in DOMAIN cfg.oci :
             /\ cfg.oci[j].image = selected[1][n].name
             /\ ~Exists(cfg.oci[j].confirmation_file, files)

\* C23 amended: every entry of the selection was on the offer list; a model
\* entry stands for a configured model of that name that had no
\* confirmation file when the list was built, an image entry for a
\* configured image, confirmed or not.
C23_ModelEntriesUnconfirmed ==
  /\ \A n \in DOMAIN selected[1] :
       /\ selected[1][n] \in Range(items[1])
       /\ IF selected[1][n].type = "model"
          THEN \E i \in offered[1] : cfg.models[i].model_name = selected[1][n].name
          ELSE \E j \in DOMAIN cfg.oci : cfg.oci[j].image = selected[1][n].name
  /\ (pc[1] = "select" \/ JustSelected) =>
       /\ offered[1] = {i \in DOMAIN cfg.models : ~Exists(cfg.models[i].confirmation_file, files)}
       /\ \A n \in DOMAIN items[1] :
            items[1][n].type = "model" =>
              \E i \in offered[1] : cfg.models[i].model_name = items[1][n].name

C23_Witness ==
  /\ JustSelected
  /\ Len(selected[1]) = 2
  /\ selected[1][1].type = "oci"
  /\ Exists(cfg.oci[1].confirmation_file, files)
  /\ selected[1][2].type = "model"
  /\ files \cap ModelConfs # {}

\* C24: once os.unlink has been called on the default link in a run, there
\* is an entry at the link path: at every later point of the call and
\* whatever its outcome.
C24_LinkAlwaysThere ==
  (\E n \in DOMAIN trace[1] : trace[1][n].op = "unlink") =>
    LExists(SymlinkPath(ModelsDir(cfg)), files, symlinks)

\* C25: after a successful run that created the default link, the link
\* leads to the destination of a model whose download has completed and
\* whose confirmation file exists.
C25_LinkTargetDownloaded ==
  (pc[1] = "done" /\ downloaded_models[1] # <<>>) =>
    \A l \in symlinks :
      \E i \in DOMAIN cfg.models :
        /\ Resolve(l) = cfg.models[i].location
        /\ artifacts[HfArgs(cfg.models[i])] = "complete"
        /\ Exists(cfg.models[i].confirmation_file, files)

FetchCalls(p) == {n \in DOMAIN trace[p] : IsFetchCall(trace[p][n])}

\* C26: the n-th external fetch of a run is for the n-th entry of the
\* selection: hf download of that name for a model entry, podman for an
\* image entry; each is over before the next starts, a failed one is the
\* last; and every entry of the selection is an entry of the offer list.
C26_FetchedInSelectionOrder ==
  /\ \A n \in DOMAIN selected[1] : selected[1][n] \in Range(items[1])
  /\ FetchCalls(1) = 1..Cardinality(FetchCalls(1))
  /\ Cardinality(FetchCalls(1)) <= Len(selected[1])
  /\ \A n \in FetchCalls(1) :
       /\ trace[1][n].op = (IF selected[1][n].type = "model" THEN "hf" ELSE "podman")
       /\ selected[1][n].type = "model" => trace[1][n].arg[2] = selected[1][n].name
       /\ selected[1][n].type = "oci" => trace[1][n].arg = <<selected[1][n].name>>
       /\ ~trace[1][n].ok => n = Len(trace[1])
  /\ pc[1] = "fetch" => Cardinality(FetchCalls(1)) = pos[1] - 1
  /\ pc[1] \in {"link", "unlink", "symlink", "confirm", "marker", "done"} =>
       Cardinality(FetchCalls(1)) = Len(selected[1])

\* the image was selected before the models and the second model before
\* the first; all three have been fetched in that order
C26_Witness ==
  /\ pc[1] = "link"
  /\ Len(selected[1]) = 3
  /\ selected[1][1].type = "oci"
  /\ selected[1][2].name = "b.gguf"
  /\ selected[1][3].name = "a.gguf"
  /\ downloaded_models[1] = <<cfg.models[2], cfg.models[1]>>

\* the phase a position of download() belongs to
Phase(at) ==
  CASE at = "idle" -> "Idle"
    [] at = "select" -> "Selecting"
    [] at = "fetch" -> "Fetching"
    [] at \in {"link", "unlink", "symlink"} -> "Linking"
    [] at \in {"confirm", "marker"} -> "Confirming"
    [] at = "done" -> "Done"
    [] at = "aborted" -> "Aborted"

PhaseRank(ph) ==
  CASE ph = "Idle" -> 0
    [] ph = "Selecting" -> 1
    [] ph = "Fetching" -> 2
    [] ph = "Linking" -> 3
    [] ph = "Confirming" -> 4
    [] ph \in {"Done", "Aborted"} -> 5

\* within a run the phase never goes back, Fetching goes from one selected
\* item to the next, and Done and Aborted are left only by starting the
\* next run
PhasesInOrder ==
  /\ ~CanStart(1) =>
       /\ PhaseRank(Phase(pc'[1])) >= PhaseRank(Phase(pc[1]))
       /\ (Phase(pc[1]) = "Fetching" /\ Phase(pc'[1]) = "Fetching") => pos'[1] = pos[1] + 1
       /\ Phase(pc'[1]) = "Linking" => Phase(pc[1]) \in {"Fetching", "Linking"}
       /\ Phase(pc'[1]) = "Confirming" => Phase(pc[1]) \in {"Linking", "Confirming"}
  /\ CanStart(1) => Phase(pc'[1]) \in {"Selecting", "Done", "Aborted"}

\* the step ends the run by a failure, not by the user's interrupt
Aborts == pc'[1] = "aborted" /\ output'[1].prefix # "Aborted!"

\* C29 as stated: the phases of a run follow one another in order, and a
\* run that has reached the selector is aborted only from Fetching or Linking.
C29_AbortOnlyFromFetchOrLink ==
  [][/\ PhasesInOrder
     /\ (Aborts /\ ~CanStart(1)) => Phase(pc[1]) \in {"Fetching", "Linking"}]_vars

\* C29 amended: the phases of a run follow one another in order; a failure
\* aborts it at its start (configuration rejected, podman missing), in
\* Fetching, in Linking, or in Confirming when a confirmation file or the
\* marker cannot be written (the user's interrupt apart).
C29_PhasesInOrder ==
  [][/\ PhasesInOrder
     /\ Aborts =>
          \/ CanStart(1) /\ (~ValidateConfig(cfg) \/ ~podman)
          \/ Phase(pc[1]) \in {"Fetching", "Linking"}
          \/ /\ Phase(pc[1]) = "Confirming"
             /\ Last(trace'[1]).op = "touch" /\ ~Last(trace'[1]).ok]_vars

\* the second confirmation file could not be written after the first was
C29_Witness ==
  /\ pc[1] = "aborted"
  /\ trace[1] # <<>>
  /\ Last(trace[1]).op = "touch" /\ ~Last(trace[1]).ok
  /\ Len(downloaded_models[1]) = 2
  /\ Exists(downloaded_models[1][1].confirmation_file, files)
  /\ ~Exists(downloaded_models[1][2].confirmation_file, files)

\* C30: when the link step of a run has been entered and default_gguf is
\* configured, it names a configured model, and the link the step creates
\* leads to the first model of that name, not to the first configured model
\* unless that is the one named.
C30_FallbackOnlyWithoutDefault ==
  (LinkCalls(1) # {} /\ cfg.default_gguf # None) =>
    /\ cfg.default_gguf \in ModelNames(cfg.models)
    /\ \A i \in DOMAIN cfg.models :
         FirstNamed(i, cfg.default_gguf) =>
           /\ SymlinkPath(ModelsDir(cfg)) = Join(DirName(cfg.models[i].confirmation_file), "default-model.gguf")
           /\ (trace[1] # <<>> /\ Last(trace[1]) = FsCall("symlink", SymlinkPath(ModelsDir(cfg)), TRUE))
                => LinkLeadsTo(i)

C30_Witness ==
  /\ pc[1] = "confirm"
  /\ cfg.default_gguf = "b.gguf"
  /\ cfg.models[1].model_name = "a.gguf"
  /\ downloaded_models[1] = <<cfg.models[1]>>
  /\ Last(trace[1]) = FsCall("symlink", SymlinkPath(ModelsDir(cfg)), TRUE)
  /\ LinkLeadsTo(2)


\* ------------------------------------------------------------ C27
ConfirmCall == call.fn = "create_confirmation_file"

\* C27: a call of create_confirmation_file on a path with a directory part
\* returns with every directory above the path and the file there; a file
\* that was there before the call keeps its bytes; and a second call on the
\* same path changes nothing the first one left (a path without a directory
\* part is refused both times, and nothing changes).
C27_ConfirmationFileIdempotent ==
  [][(ConfirmCall /\ upc' # upc) =>
       /\ disk.exists => disk' = disk
       /\ DirName(call.path) # <<>> =>
            /\ result'.state = "returned"
            /\ Parents(DirName(call.path)) \subseteq dirs'
            /\ disk'.exists /\ call.path \in files'
            /\ ~disk.exists => disk'.content = <<>>
       /\ upc = "again" => <<disk, dirs, files>>' = <<disk, dirs, files>>]_vars

\* called twice on a path whose directories were missing
C27_Witness ==
  /\ ConfirmCall /\ upc = "end"
  /\ call.depth = 0 /\ Len(call.path) = 3
  /\ DirName(call.path) \in dirs /\ disk = [exists |-> TRUE, content |-> <<>>]

\* ------------------------------------- two instances of the command at once
\* the configuration both instances are given: one model, with or without an
\* image, with a provider validate_config knows or one it rejects
ConcConfigs ==
  {[model_provider |-> mp, oci_provider |-> "podman", default_gguf |-> None,
    models |-> <<ModelItem(1, "a.gguf")>>, oci |-> [j \in 1..o |-> OciItem(j)]] :
     mp \in {"ollama", "bogus"}, o \in 0..1}

ConcInit ==
  /\ Init
  /\ cfg \in ConcConfigs

\* the steps of the two processes interleave; nothing orders them
ConcNext == \E p \in Procs : Step(p)

ConcSpec == ConcInit /\ [][ConcNext]_vars

\* ------------------------------------------------------------ C28
LinkPath == SymlinkPath(ModelsDir(cfg))

\* the model fetches that succeeded in the run of p
FetchedByHf(p) ==
  {trace[p][n].arg : n \in {m \in DOMAIN trace[p] : trace[p][m].op = "hf" /\ trace[p][m].ok}}

\* C28: nothing a process does waits for the other process: whatever the
\* other is doing, a process whose last run is over can start a run whenever
\* something is to be offered, can carry out the fetch it has reached, can
\* test the link path, can remove the entry that is there and can create the
\* link where no entry is.
C28_NoMutualExclusion ==
  \A p \in Procs :
    /\ (pc[p] \in {"idle", "done", "aborted"} /\ ValidateConfig(cfg) /\ podman
          /\ BuildItems(cfg, files) # <<>>)
         => ENABLED StartRun(p)
    /\ pc[p] = "fetch" => ENABLED (PullModelOk(p) \/ PullOciOk(p))
    /\ pc[p] = "link" => ENABLED LinkLExists(p)
    /\ (pc[p] = "unlink" /\ LExists(LinkPath, files, symlinks)) => ENABLED UnlinkOk(p)
    /\ (pc[p] = "symlink" /\ ~LExists(LinkPath, files, symlinks)) => ENABLED SymlinkOk(p)

\* both processes were offered the same unconfirmed model, both fetched it,
\* and both are between the removal and the creation of the link, one of
\* them having removed the link of an earlier run
C28_Witness ==
  /\ pc[1] = "symlink" /\ pc[2] = "symlink"
  /\ offered[1] = {1} /\ offered[2] = {1}
  /\ FetchedByHf(1) # {} /\ FetchedByHf(1) = FetchedByHf(2)
  /\ cfg.models[1].confirmation_file \notin files
  /\ \E p \in Procs : Last(trace[p]).op = "unlink" /\ Last(trace[p]).ok

\* ------------------------------------------------------------ C31
EntriesAt(path) == {l \in symlinks : l.path = path}

\* the last call of the run of p was op, and it succeeded
JustDid(p, op) == trace[p] # <<>> /\ Last(trace[p]).op = op /\ Last(trace[p]).ok

\* C31: right after os.symlink succeeded there is one entry at
\* <dir>/default-model.gguf, a symlink and no regular file; its stored target
\* is the destination relative to <dir>, which is not the destination's full
\* path and leads from <dir> to the destination. Right after the test of the
\* link path, unless the user interrupts, the removal comes next exactly
\* when an entry is at the path, whether or not its target is there; and
\* right after the removal no entry is at the path.
C31_LinkRelativeAndReplaced ==
  /\ JustDid(1, "symlink") =>
       /\ LinkPath \notin files
       /\ Cardinality(EntriesAt(LinkPath)) = 1
       /\ \A l \in EntriesAt(LinkPath) :
            /\ l.target = RelPath(DefaultModel(cfg).location, DirName(LinkPath))
            /\ l.target # DefaultModel(cfg).location
            /\ Head(l.target) # Head(DefaultModel(cfg).location)
            /\ Resolve(l) = DefaultModel(cfg).location
  /\ (JustDid(1, "lexists") /\ pc[1] # "aborted") =>
       (pc[1] = "unlink" <=> (LinkPath \in files \/ EntriesAt(LinkPath) # {}))
  /\ JustDid(1, "unlink") => (LinkPath \notin files /\ EntriesAt(LinkPath) = {})

\* a link whose target was never fetched has been replaced
C31_Witness ==
  /\ JustDid(1, "symlink")
  /\ \E n \in DOMAIN trace[1] : trace[1][n].op = "unlink" /\ trace[1][n].ok
  /\ artifacts[HfArgs(DefaultModel(cfg))] = "absent"

\* ------------------------------------------------------------ C32
CallsOf(p, ops) == {n \in DOMAIN trace[p] : trace[p][n].op \in ops}

\* C32: in a run the fetch tool has been invoked no more often than items
\* of the selection have been reached, each invocation for the item at its
\* place in the selection; os.unlink and os.symlink have each been called at
\* most once; and a call that failed is the last call of the run, which is
\* aborted.
C32_NothingRetried ==
  /\ Cardinality(CallsOf(1, {"hf", "podman"})) <= Len(selected[1])
  /\ \A n \in CallsOf(1, {"hf", "podman"}) :
       /\ n <= Len(selected[1])
       /\ trace[1][n].op = (IF selected[1][n].type = "model" THEN "hf" ELSE "podman")
  /\ Cardinality(CallsOf(1, {"unlink"})) <= 1
  /\ Cardinality(CallsOf(1, {"symlink"})) <= 1
  /\ \A n \in DOMAIN trace[1] :
       ~trace[1][n].ok => (n = Len(trace[1]) /\ pc[1] = "aborted")

\* two items were fetched, the old link was removed, and os.symlink failed
C32_Witness ==
  /\ pc[1] = "aborted"
  /\ Cardinality(CallsOf(1, {"hf", "podman"})) = 2
  /\ CallsOf(1, {"unlink"}) # {}
  /\ Last(trace[1]).op = "symlink" /\ ~Last(trace[1]).ok

\* --------------------------------------- runs with checksums configured
\* config.py:30, the values of a model's checksum field
Checksums == {None, "0a1b", "ffff"}

WithChecksums(c, sums) ==
  [c EXCEPT !.models = [i \in DOMAIN c.models |-> [c.models[i] EXCEPT !.checksum = sums[i]]]]

\* one or two models, each with or without a checksum, with or without an
\* image, with a provider validate_config knows or one it rejects
ChecksumConfigs ==
  UNION { UNION { {WithChecksums(
                     [model_provider |-> mp, oci_provider |-> "podman", default_gguf |-> None,
                      models |-> [i \in 1..n |-> ModelItem(i, nm[i])],
                      oci |-> [j \in 1..o |-> OciItem(j)]], sums)
                   : mp \in {"ollama", "bogus"}, o \in 0..1,
                     nm \in {<<"a.gguf", "b.gguf">>, <<"a.gguf", "a.gguf">>} }
                  : sums \in [1..n -> Checksums] }
          : n \in 1..2 }

ChecksumInit ==
  /\ cfg \in ChecksumConfigs
  /\ FreshStart

ChecksumSpec == ChecksumInit /\ [][Next]_vars

\* ------------------------------------------------------------ C33
\* the configurations that differ from c in checksum values only
ChecksumVariants(c) == {WithChecksums(c, sums) : sums \in [DOMAIN c.models -> Checksums]}

NoChecksum(model) == [model EXCEPT !.checksum = None]

\* what download() takes from the configuration in the state reached
ReadsOf(c) ==
  [ error |-> ConfigError(c),
    items |-> BuildItems(c, files),
    offered |-> OfferedModels(c, files),
    lookups |-> [i \in DOMAIN items[1] |->
                   IF items[1][i].type = "model"
                   THEN NoChecksum(LookupModel(c, items[1][i]))
                   ELSE LookupOci(c, items[1][i])],
    calls |-> [i \in DOMAIN items[1] |->
                 IF items[1][i].type = "model"
                 THEN HfCall(LookupModel(c, items[1][i]), TRUE)
                 ELSE PodmanCall(LookupOci(c, items[1][i]), TRUE)],
    link |-> <<SymlinkPath(ModelsDir(c)), LinkTarget(c)>>,
    marker |-> ProviderConfirmationFile(c) ]

\* C33: whatever checksum values are configured, download() takes the same
\* from the configuration: the same verdict of validation, offer list, model
\* and tool invocation for every offered item, link and marker path. A model
\* is fetched by hf download alone: right after the tool succeeded the model
\* is on the list of fetched models and the run goes on (it ends there only
\* by the user's interrupt), with a checksum configured or not; and a run
\* that ends successfully exits with 0 and has written the confirmation
\* file of every model it fetched.
C33_ChecksumIgnored ==
  /\ \A c \in ChecksumVariants(cfg) : ReadsOf(c) = ReadsOf(cfg)
  /\ JustDid(1, "hf") =>
       /\ downloaded_models[1] # <<>>
       /\ HfCall(Last(downloaded_models[1]), TRUE) = Last(trace[1])
       /\ pc[1] = "aborted" => output[1].prefix = "Aborted!"
  /\ pc[1] = "done" =>
       /\ exit_code[1] = <<0>>
       /\ \A n \in DOMAIN downloaded_models[1] :
            Exists(downloaded_models[1][n].confirmation_file, files)

\* a model with a checksum configured was fetched and confirmed
C33_Witness ==
  /\ pc[1] = "done"
  /\ \E n \in DOMAIN downloaded_models[1] :
       /\ downloaded_models[1][n].checksum # None
       /\ Exists(downloaded_models[1][n].confirmation_file, files)
       /\ \E h \in DOMAIN trace[1] : trace[1][h] = HfCall(downloaded_models[1][n], TRUE)

\* ------------------------------------------------------------ C34
\* the offered models an entry of the selection stands for
SelectedModels(p) ==
  {i \in offered[p] : \E n \in DOMAIN selected[p] :
     selected[p][n] = [name |-> cfg.models[i].model_name, type |-> "model"]}

\* C34: after a run that ended successfully, every offered model that an
\* entry of the selection stands for has been fetched by hf download from
\* its own repository into its own directory, and its own confirmation file
\* exists, also when two configured models have the same model_name.
C34_EverySelectedModelFetched ==
  pc[1] = "done" =>
    \A i \in SelectedModels(1) :
      /\ \E n \in DOMAIN trace[1] : trace[1][n] = HfCall(cfg.models[i], TRUE)
      /\ Exists(cfg.models[i].confirmation_file, files)

\* ------------------------------------------------------------ C35
\* C35: when the selector, shown a non-empty offer list, returns an empty
\* selection, the run ends at once with exit code 0: no external call is
\* made, and the confirmation files, the markers, the links and the
\* downloaded artifacts are what they were.
C35_EmptySelectionChangesNothing ==
  [][(pc[1] = "select" /\ selected'[1] = <<>>) =>
       /\ items[1] # <<>>
       /\ pc'[1] = "done"
       /\ exit_code'[1] = <<0>>
       /\ trace'[1] = <<>>
       /\ UNCHANGED <<files, symlinks, artifacts>>]_vars

\* nothing was selected in a run that found a link and a confirmation file
C35_Witness ==
  /\ pc[1] = "done"
  /\ items[1] # <<>> /\ selected[1] = <<>>
  /\ trace[1] = <<>> /\ exit_code[1] = <<0>>
  /\ symlinks # {} /\ files # {}

\* ------------------------------------------------------------ C36
\* the confirmation files and markers the configuration speaks of
ConfirmationPaths ==
  {cfg.models[i].confirmation_file : i \in DOMAIN cfg.models}
  \cup {cfg.oci[j].confirmation_file : j \in DOMAIN cfg.oci}
  \cup {Join(DirName(cfg.models[i].confirmation_file), ".neurobik-ready") :
          i \in DOMAIN cfg.models}

\* C36: no step of a run removes a confirmation file or a provider marker:
\* those there before a step are there after it, over any sequence of runs.
\* A step that removes anything is a successful os.unlink, and what it
\* removes is the entry at the default-link path; nothing that was
\* downloaded is removed.
C36_ConfirmationsOnlyGrow ==
  [][/\ (files \cap ConfirmationPaths) \subseteq files'
     /\ (files \ files' # {} \/ symlinks \ symlinks' # {}) =>
          /\ JustDid(1, "unlink")'
          /\ \A f \in files \ files' : f = LinkPath
          /\ \A l \in symlinks \ symlinks' : l.path = LinkPath
     /\ \A a \in DOMAIN artifacts : artifacts[a] # "absent" => artifacts'[a] # "absent"]_vars

\* the link was removed while a confirmation file and a marker were there
C36_Witness ==
  /\ JustDid(1, "unlink")
  /\ MarkerPath \in files
  /\ \E i \in DOMAIN cfg.models : cfg.models[i].confirmation_file \in files
  /\ EntriesAt(LinkPath) = {}

\* ------------------------------------------------------------ C37
\* C37: where podman is missing no run gets past the start, with or without
\* an image configured and with or without anything to offer: the run is
\* aborted with exit code 1, reporting 'Podman not installed' when the
\* configuration is valid and the configuration error otherwise; no offer
\* list is built, no external call is made, and no file, link or artifact
\* is created.
C37_PodmanCheckedFirst ==
  ~podman =>
    /\ pc[1] \in {"idle", "aborted"}
    /\ Untouched
    /\ pc[1] = "aborted" =>
         /\ exit_code[1] = <<1>>
         /\ output[1].prefix = "Error: "
         /\ ValidateConfig(cfg) => output[1].msg = << <<"Podman not installed">> >>
         /\ ~ValidateConfig(cfg) => output[1].msg = ConfigError(cfg)

\* podman is missing, no image is configured and nothing would be offered
C37_Witness ==
  /\ ~podman /\ pc[1] = "aborted"
  /\ ValidateConfig(cfg)
  /\ cfg.oci = <<>> /\ BuildItems(cfg, files) = <<>>
  /\ output[1].msg = << <<"Podman not installed">> >>

====
